---- MODULE Spec2Model ----
(***************************************************************************)
(* Quantaris engine: the turn-resolution pipeline (resolveTurn) over the   *)
(* GameState built by createInitialState.                                  *)
(*                                                                         *)
(* A GameState is a record [turn, phase, quantars, cores, winner]; the     *)
(* quantars array is a sequence of Quantar records, null is NULL.  An      *)
(* Action is a record [type, quantarId (, direction)]; a TurnEvent is a    *)
(* record whose fields are those of the event's variant.                   *)
(***************************************************************************)
EXTENDS Integers, Sequences, FiniteSets, TLC

VARIABLES
    state,      \* the GameState the caller holds (the latest result.state)
    log,        \* the TurnLog of the latest resolveTurn call
    input,      \* the TurnInput of the latest call, as it was when passed
    inputAfter, \* the caller's input state object as it reads after the call
    calls,      \* number of resolveTurn calls made so far
    played,     \* number of those calls whose action lists were chosen freely
    validation, \* the latest validation of a submission against state
    comparison  \* the latest comparison of state with another GameState

vars == <<state, log, input, inputAfter, calls, played, validation, comparison>>

----------------------------------------------------------------------------
(* core/types *)

NULL == "null"

BOARD_SIZE == 9
CORE_HP == 5
QUANTAR_HP == 2
PULSE_DAMAGE == 1
SHIELD_REDUCTION == 1
QUANTARS_PER_PLAYER == 3
MAX_TURNS == 50

Player == {"A", "B"}
ALL_DIRECTIONS == {"N", "E", "S", "W"}
ALL_PULSE_DIRECTIONS == {"N", "E", "S", "W", "NE", "NW", "SE", "SW"}
DIAGONAL_DIRECTIONS == {"NE", "NW", "SE", "SW"}

Pos(px, py) == [x |-> px, y |-> py]

\* Array.prototype.map
RECURSIVE MapFrom(_, _, _)
MapFrom(seq, F(_, _), i) ==
    IF i > Len(seq) THEN <<>> ELSE <<F(seq[i], i)>> \o MapFrom(seq, F, i + 1)

Map(seq, F(_, _)) == MapFrom(seq, F, 1)

\* Array.prototype.find / findIndex: the least index satisfying Test, 0 if none
RECURSIVE FindFrom(_, _, _)
FindFrom(seq, Test(_), i) ==
    IF i > Len(seq) THEN 0
    ELSE IF Test(seq[i]) THEN i
    ELSE FindFrom(seq, Test, i + 1)

FindIndex(seq, Test(_)) == FindFrom(seq, Test, 1)

----------------------------------------------------------------------------
(* core/state *)

\* variant: the two Cores stand on each other's cell
INITIAL_POSITIONS_swapped ==
    [cores    |-> [A |-> Pos(4, 0), B |-> Pos(4, 8)],
     quantars |-> [A |-> <<Pos(3, 6), Pos(4, 6), Pos(5, 6)>>,
                   B |-> <<Pos(3, 2), Pos(4, 2), Pos(5, 2)>>]]

INITIAL_POSITIONS ==
    [cores    |-> [A |-> Pos(4, 8), B |-> Pos(4, 0)],
     quantars |-> [A |-> <<Pos(3, 6), Pos(4, 6), Pos(5, 6)>>,
                   B |-> <<Pos(3, 2), Pos(4, 2), Pos(5, 2)>>]]

Digit == <<"1", "2", "3">>

createQuantar(owner, index, position) ==
    [id |-> owner \o Digit[index + 1], owner |-> owner,
     position |-> position, hp |-> QUANTAR_HP]

createCore(owner, position) ==
    [owner |-> owner, position |-> position, hp |-> CORE_HP]

createInitialState ==
    LET quantarsA == Map(INITIAL_POSITIONS.quantars.A,
                         LAMBDA pos, i : createQuantar("A", i - 1, pos))
        quantarsB == Map(INITIAL_POSITIONS.quantars.B,
                         LAMBDA pos, i : createQuantar("B", i - 1, pos))
    IN  [turn     |-> 1,
         phase    |-> "playing",
         quantars |-> quantarsA \o quantarsB,
         cores    |-> [A |-> createCore("A", INITIAL_POSITIONS.cores.A),
                       B |-> createCore("B", INITIAL_POSITIONS.cores.B)],
         winner   |-> NULL]

\* variant: the upper limits are compared with <= instead of <
isInBounds_wide(position) ==
    /\ position.x >= 0 /\ position.x <= BOARD_SIZE
    /\ position.y >= 0 /\ position.y <= BOARD_SIZE

isInBounds(position) ==
    position.x >= 0 /\ position.x < 9 /\ position.y >= 0 /\ position.y < 9

positionsEqual(a, b) == a.x = b.x /\ a.y = b.y

getOpponent(playerId) == IF playerId = "A" THEN "B" ELSE "A"

getQuantar(st, id) == FindIndex(st.quantars, LAMBDA q : q.id = id)

getPlayerQuantars(st, playerId) ==
    SelectSeq(st.quantars, LAMBDA q : q.owner = playerId)

----------------------------------------------------------------------------
(* actions/validate: direction helpers *)

isValidDirection(dir) == dir \in ALL_DIRECTIONS

isValidPulseDirection(dir) == dir \in ALL_PULSE_DIRECTIONS

isDiagonalPulse(dir) == dir \in DIAGONAL_DIRECTIONS

DIRECTION_DELTAS ==
    [N |-> Pos(0, -1), E |-> Pos(1, 0), S |-> Pos(0, 1), W |-> Pos(-1, 0)]

PULSE_DIRECTION_DELTAS ==
    [N  |-> Pos(0, -1), E  |-> Pos(1, 0),  S  |-> Pos(0, 1), W  |-> Pos(-1, 0),
     NE |-> Pos(1, -1), NW |-> Pos(-1, -1), SE |-> Pos(1, 1), SW |-> Pos(-1, 1)]

\* variant: the delta is applied twice
applyDirection_twice(pos, dir) ==
    LET d == DIRECTION_DELTAS[dir] IN Pos(pos.x + 2 * d.x, pos.y + 2 * d.y)

applyDirection(pos, dir) ==
    LET d == DIRECTION_DELTAS[dir] IN Pos(pos.x + d.x, pos.y + d.y)

applyPulseDirection(pos, dir) ==
    LET d == PULSE_DIRECTION_DELTAS[dir] IN Pos(pos.x + d.x, pos.y + d.y)

----------------------------------------------------------------------------
(* actions/validate: validation of a submission.  A ValidationResult is     *)
(* [valid |-> TRUE] or [valid |-> FALSE, code |-> c]; the error text, which *)
(* is built from the code's case and the ids, is left out.  An action       *)
(* without a type is a record without the field type.                      *)

ValidationSuccess == [valid |-> TRUE]

ValidationError(code) == [valid |-> FALSE, code |-> code]

\* variant: ownership is checked after the validation by type
validateAction_typeFirst(st, action, playerId) ==
    IF "type" \notin DOMAIN action THEN ValidationError("INVALID_ACTION_TYPE")
    ELSE LET qi == getQuantar(st, action.quantarId)
         IN  IF qi = 0 THEN ValidationError("QUANTAR_NOT_FOUND")
             ELSE IF action.type = "MOVE" /\ ~isValidDirection(action.direction)
                  THEN ValidationError("INVALID_DIRECTION")
             ELSE IF action.type = "PULSE" /\ ~isValidPulseDirection(action.direction)
                  THEN ValidationError("INVALID_DIRECTION")
             ELSE IF action.type \notin {"MOVE", "PULSE", "SHIELD"}
                  THEN ValidationError("INVALID_ACTION_TYPE")
             ELSE IF st.quantars[qi].owner # playerId
                  THEN ValidationError("QUANTAR_NOT_OWNED")
             ELSE IF st.quantars[qi].hp <= 0 THEN ValidationError("QUANTAR_DEAD")
             ELSE IF action.type = "MOVE"
                     /\ ~isInBounds(applyDirection(st.quantars[qi].position,
                                                   action.direction))
                  THEN ValidationError("MOVE_OUT_OF_BOUNDS")
             ELSE ValidationSuccess

\* variant: an unrecognized type is rejected before the Quantar is looked up
validateAction_recognizedFirst(st, action, playerId) ==
    IF "type" \notin DOMAIN action THEN ValidationError("INVALID_ACTION_TYPE")
    ELSE IF action.type \notin {"MOVE", "PULSE", "SHIELD"}
    THEN ValidationError("INVALID_ACTION_TYPE")
    ELSE LET qi == getQuantar(st, action.quantarId)
         IN  IF qi = 0 THEN ValidationError("QUANTAR_NOT_FOUND")
             ELSE IF st.quantars[qi].owner # playerId
                  THEN ValidationError("QUANTAR_NOT_OWNED")
             ELSE IF st.quantars[qi].hp <= 0 THEN ValidationError("QUANTAR_DEAD")
             ELSE IF action.type = "MOVE"
                  THEN IF ~isValidDirection(action.direction)
                       THEN ValidationError("INVALID_DIRECTION")
                       ELSE IF ~isInBounds(applyDirection(st.quantars[qi].position,
                                                          action.direction))
                            THEN ValidationError("MOVE_OUT_OF_BOUNDS")
                            ELSE ValidationSuccess
             ELSE IF action.type = "PULSE"
                  THEN IF ~isValidPulseDirection(action.direction)
                       THEN ValidationError("INVALID_DIRECTION")
                       ELSE ValidationSuccess
             ELSE ValidationSuccess

validateAction(st, action, playerId) ==
    IF "type" \notin DOMAIN action THEN ValidationError("INVALID_ACTION_TYPE")
    ELSE LET qi == getQuantar(st, action.quantarId)
         IN  IF qi = 0 THEN ValidationError("QUANTAR_NOT_FOUND")
             ELSE IF st.quantars[qi].owner # playerId
                  THEN ValidationError("QUANTAR_NOT_OWNED")
             ELSE IF st.quantars[qi].hp <= 0 THEN ValidationError("QUANTAR_DEAD")
             ELSE IF action.type = "MOVE"
                  THEN IF ~isValidDirection(action.direction)
                       THEN ValidationError("INVALID_DIRECTION")
                       ELSE IF ~isInBounds(applyDirection(st.quantars[qi].position,
                                                          action.direction))
                            THEN ValidationError("MOVE_OUT_OF_BOUNDS")
                            ELSE ValidationSuccess
             ELSE IF action.type = "PULSE"
                  THEN IF ~isValidPulseDirection(action.direction)
                       THEN ValidationError("INVALID_DIRECTION")
                       ELSE ValidationSuccess
             ELSE IF action.type = "SHIELD" THEN ValidationSuccess
             ELSE ValidationError("INVALID_ACTION_TYPE")

\* the loop over the actions: the first error, or success with the set of ids
\* collected in actionQuantarIds
RECURSIVE validateEach(_, _, _, _, _)
validateEach(st, actions, playerId, n, actionQuantarIds) ==
    IF n > Len(actions)
    THEN [result |-> ValidationSuccess, actionQuantarIds |-> actionQuantarIds]
    ELSE IF actions[n].quantarId \in actionQuantarIds
    THEN [result |-> ValidationError("DUPLICATE_QUANTAR_ACTION"),
          actionQuantarIds |-> actionQuantarIds]
    ELSE LET result == validateAction(st, actions[n], playerId)
             ids == actionQuantarIds \cup {actions[n].quantarId}
         IN  IF ~result.valid THEN [result |-> result, actionQuantarIds |-> ids]
             ELSE validateEach(st, actions, playerId, n + 1, ids)

\* variant: the check that every living Quantar has an action is missing
validatePlayerActions_noMissing(st, actions, playerId) ==
    IF st.phase # "playing" THEN ValidationError("GAME_NOT_IN_ACTION_PHASE")
    ELSE validateEach(st, actions, playerId, 1, {}).result

\* variant: the phase is checked after the actions
validatePlayerActions_phaseLast(st, actions, playerId) ==
    LET playerQuantars == getPlayerQuantars(st, playerId)
        aliveQuantars == SelectSeq(playerQuantars, LAMBDA q : q.hp > 0)
        each == validateEach(st, actions, playerId, 1, {})
    IN  IF ~each.result.valid THEN each.result
        ELSE IF \E i \in 1..Len(aliveQuantars) :
                    aliveQuantars[i].id \notin each.actionQuantarIds
             THEN ValidationError("MISSING_QUANTAR_ACTION")
        ELSE IF st.phase # "playing" THEN ValidationError("GAME_NOT_IN_ACTION_PHASE")
        ELSE ValidationSuccess

validatePlayerActions(st, actions, playerId) ==
    IF st.phase # "playing" THEN ValidationError("GAME_NOT_IN_ACTION_PHASE")
    ELSE LET playerQuantars == getPlayerQuantars(st, playerId)
             aliveQuantars == SelectSeq(playerQuantars, LAMBDA q : q.hp > 0)
             each == validateEach(st, actions, playerId, 1, {})
         IN  IF ~each.result.valid THEN each.result
             ELSE IF \E i \in 1..Len(aliveQuantars) :
                         aliveQuantars[i].id \notin each.actionQuantarIds
                  THEN ValidationError("MISSING_QUANTAR_ACTION")
                  ELSE ValidationSuccess

----------------------------------------------------------------------------
(* hash/canonical: canonical serialization.  Strings are TLA+ strings,     *)
(* template literals are concatenations and a number is written in decimal *)
(* by ToString.                                                            *)

serializeQuantar(q) ==
    "Q:" \o q.id \o ":" \o q.owner \o ":" \o ToString(q.position.x) \o ","
         \o ToString(q.position.y) \o ":" \o ToString(q.hp)

serializeCore(c) ==
    "C:" \o c.owner \o ":" \o ToString(c.position.x) \o ","
         \o ToString(c.position.y) \o ":" \o ToString(c.hp)

\* the ids given by createQuantar, in the order of String.prototype.localeCompare
QuantarIdOrder == <<"A1", "A2", "A3", "B1", "B2", "B3">>

\* a.localeCompare(b) on ids of QuantarIdOrder: negative, 0 or positive
localeCompare(a, b) ==
    FindIndex(QuantarIdOrder, LAMBDA id : id = a)
        - FindIndex(QuantarIdOrder, LAMBDA id : id = b)

\* Array.prototype.sort with (a, b) => a.id.localeCompare(b.id): a stable sort,
\* here the insertion of the n-th element behind the sorted ones that are not
\* greater
RECURSIVE insertQuantar(_, _)
insertQuantar(sorted, q) ==
    IF sorted = <<>> THEN <<q>>
    ELSE IF localeCompare(sorted[Len(sorted)].id, q.id) <= 0 THEN Append(sorted, q)
    ELSE Append(insertQuantar(SubSeq(sorted, 1, Len(sorted) - 1), q),
                sorted[Len(sorted)])

RECURSIVE sortedQuantars(_, _)
sortedQuantars(quantars, n) ==
    IF n = 0 THEN <<>>
    ELSE insertQuantar(sortedQuantars(quantars, n - 1), quantars[n])

\* Array.prototype.join
RECURSIVE join(_, _)
join(parts, separator) ==
    IF parts = <<>> THEN ""
    ELSE IF Len(parts) = 1 THEN parts[1]
    ELSE parts[1] \o separator \o join(Tail(parts), separator)

\* variant: the Quantars are serialized in the order of the array
canonicalizeState_unsorted(st) ==
    join(<<"T:" \o ToString(st.turn),
           "P:" \o st.phase,
           "W:" \o (IF st.winner = NULL THEN "null" ELSE st.winner),
           serializeCore(st.cores.A),
           serializeCore(st.cores.B)>>
         \o Map(st.quantars, LAMBDA q, i : serializeQuantar(q)),
         "|")

canonicalizeState(st) ==
    join(<<"T:" \o ToString(st.turn),
           "P:" \o st.phase,
           "W:" \o (IF st.winner = NULL THEN "null" ELSE st.winner),
           serializeCore(st.cores.A),
           serializeCore(st.cores.B)>>
         \o Map(sortedQuantars(st.quantars, Len(st.quantars)),
                LAMBDA q, i : serializeQuantar(q)),
         "|")

statesEqual(a, b) == canonicalizeState(a) = canonicalizeState(b)

----------------------------------------------------------------------------
(* hash/canonical: the djb2 hash.  A 32-bit integer is the pair <<hi, lo>> *)
(* of the two 16-bit halves of its bit pattern, which is the same for the  *)
(* signed value the loop holds and for the unsigned value that >>> 0       *)
(* returns; a string index is 1-based.                                     *)

\* the characters c of chars have the codes first, first + 1, ...
CodesFrom(first, chars) ==
    [c \in {SubSeq(chars, k, k) : k \in 1..Len(chars)} |->
        first - 1 + CHOOSE k \in 1..Len(chars) : SubSeq(chars, k, k) = c]

\* the UTF-16 codes of the characters that occur in canonical strings
CharCodes ==
    CodesFrom(44, ",-") @@ CodesFrom(48, "0123456789:")
        @@ CodesFrom(65, "ABCDEFGHIJKLMNOPQRSTUVWXYZ") @@ CodesFrom(95, "_")
        @@ CodesFrom(97, "abcdefghijklmnopqrstuvwxyz{|}")

\* String.prototype.charCodeAt
charCodeAt(str, i) == CharCodes[SubSeq(str, i, i)]

Int32(hi, lo) == <<hi % 65536, lo % 65536>>

\* a << 5 on 32 bits
shiftLeft5(a) == Int32(a[1] * 32 + (a[2] * 32) \div 65536, a[2] * 32)

\* ToInt32(a + b): the sum modulo 2^32
add32(a, b) == Int32(a[1] + b[1] + (a[2] + b[2]) \div 65536, a[2] + b[2])

\* a ^ b on halves
RECURSIVE xor16(_, _)
xor16(a, b) ==
    IF a = 0 THEN b
    ELSE IF b = 0 THEN a
    ELSE 2 * xor16(a \div 2, b \div 2) + ((a + b) % 2)

\* a ^ code for a character code (16 bits)
xor32(a, code) == <<a[1], xor16(a[2], code)>>

\* the halves of a 32-bit integer
IsInt32(a) == a[1] \in 0..65535 /\ a[2] \in 0..65535

\* the loop, for the characters from the i-th on, on the 32-bit hash held
RECURSIVE djb2Loop(_, _, _)
djb2Loop(str, i, hash) ==
    IF ~IsInt32(hash) \/ i > Len(str) THEN hash
    ELSE djb2Loop(str, i + 1,
                  xor32(add32(shiftLeft5(hash), hash), charCodeAt(str, i)))

\* variant: the character is added, as in the additive djb2
djb2Hash_additive(str) ==
    LET RECURSIVE loop(_, _)
        loop(i, hash) ==
            IF ~IsInt32(hash) \/ i > Len(str) THEN hash
            ELSE loop(i + 1, add32(add32(shiftLeft5(hash), hash),
                                   <<0, charCodeAt(str, i)>>))
    IN  loop(1, <<0, 5381>>)

djb2Hash(str) == djb2Loop(str, 1, <<0, 5381>>)

HexDigits == "0123456789abcdef"

\* Number.prototype.toString(16) of a number below 65536
RECURSIVE toString16(_)
toString16(n) ==
    IF n < 16 THEN SubSeq(HexDigits, n + 1, n + 1)
    ELSE toString16(n \div 16) \o SubSeq(HexDigits, (n % 16) + 1, (n % 16) + 1)

\* String.prototype.padStart with a pad string of one character
RECURSIVE padStart(_, _, _)
padStart(str, targetLength, padString) ==
    IF Len(str) >= targetLength THEN str
    ELSE padStart(padString \o str, targetLength, padString)

\* hash.toString(16) of the unsigned 32-bit hash
hashToString16(hash) ==
    IF hash[1] = 0 THEN toString16(hash[2])
    ELSE toString16(hash[1]) \o padStart(toString16(hash[2]), 4, "0")

hashToHex(str) == padStart(hashToString16(djb2Hash(str)), 8, "0")

hashState(st) == hashToHex(canonicalizeState(st))

----------------------------------------------------------------------------
(* resolution/pipeline: internal state, mutable during resolution.          *)
(* The objects of the working copy carry the field obj, the identity of the *)
(* object on the heap: New(ref) is an object allocated by the call, ref is *)
(* the caller's own object.  A write to a working object whose obj is a    *)
(* caller's ref is a write to the caller's state.                          *)

QuantarRef(i) == <<"state.quantars", i>>
CoreRef(p) == <<"state.cores", p>>
New(ref) == <<"new">> \o ref

\* variant: the Quantar passed in is extended in place and returned
toMutableQuantar_inPlace(q, ref) ==
    [obj |-> ref, id |-> q.id, owner |-> q.owner, position |-> q.position,
     hp |-> q.hp, shielded |-> FALSE, pendingDamage |-> 0]

toMutableQuantar(q, ref) ==
    [obj |-> New(ref), id |-> q.id, owner |-> q.owner, position |-> q.position,
     hp |-> q.hp, shielded |-> FALSE, pendingDamage |-> 0]

toMutableCore(c, ref) ==
    [obj |-> New(ref), owner |-> c.owner, position |-> c.position,
     hp |-> c.hp, pendingDamage |-> 0]

\* variant: the shielded flag is copied into the GameState
toImmutableQuantar_keepsShield(q) ==
    [id |-> q.id, owner |-> q.owner, position |-> q.position, hp |-> q.hp,
     shielded |-> q.shielded]

toImmutableQuantar(q) ==
    [id |-> q.id, owner |-> q.owner, position |-> q.position, hp |-> q.hp]

toImmutableCore(c) ==
    [owner |-> c.owner, position |-> c.position, hp |-> c.hp]

\* variant: an id that is not found yields the first Quantar
getQuantarById_first(rs, id) ==
    LET found == FindIndex(rs.quantars, LAMBDA q : q.id = id)
    IN  IF found = 0 /\ Len(rs.quantars) > 0 THEN 1 ELSE found

\* index in rs.quantars of the Quantar with this id, 0 for undefined
getQuantarById(rs, id) == FindIndex(rs.quantars, LAMBDA q : q.id = id)

\* the first live Quantar in that cell, else Core A, else Core B, else null
getEntityAtPosition(rs, position) ==
    LET qi == FindIndex(rs.quantars,
                        LAMBDA q : q.hp > 0 /\ positionsEqual(q.position, position))
    IN  IF qi # 0 THEN [type |-> "quantar", entity |-> qi]
        ELSE IF positionsEqual(rs.cores.A.position, position)
             THEN [type |-> "core", entity |-> "A"]
        ELSE IF positionsEqual(rs.cores.B.position, position)
             THEN [type |-> "core", entity |-> "B"]
        ELSE [type |-> NULL]

----------------------------------------------------------------------------
(* Phase 1: MOVE *)

MoveBlockedEvent(quantarId, from, direction, reason) ==
    [type |-> "MOVE_BLOCKED", quantarId |-> quantarId, from |-> from,
     direction |-> direction, reason |-> reason]

\* the first loop: intended destinations of the first n Move actions, with the
\* "out of bounds" events it pushes
RECURSIVE intendedMoves(_, _, _)
intendedMoves(rs, moveActions, n) ==
    IF n = 0 THEN [moves |-> <<>>, events |-> <<>>]
    ELSE LET prev == intendedMoves(rs, moveActions, n - 1)
             action == moveActions[n]
             qi == getQuantarById(rs, action.quantarId)
         IN  IF qi = 0 THEN prev
             ELSE IF rs.quantars[qi].hp <= 0 THEN prev
             ELSE LET from == rs.quantars[qi].position
                      to == applyDirection(from, action.direction)
                  IN  IF ~isInBounds(to)
                      THEN [prev EXCEPT !.events = Append(@,
                               MoveBlockedEvent(rs.quantars[qi].id, from,
                                                action.direction, "out of bounds"))]
                      ELSE [prev EXCEPT !.moves = Append(@,
                               [quantar |-> qi, from |-> from, to |-> to,
                                action |-> action])]

\* variant: only the Core of player A is compared
coreCollision_onlyA(rs, move) == positionsEqual(move.to, rs.cores.A.position)

coreCollision(rs, move) ==
    \/ positionsEqual(move.to, rs.cores.A.position)
    \/ positionsEqual(move.to, rs.cores.B.position)

\* Array.prototype.filter whose callback pushes an event for each dropped move
RECURSIVE filterMoves(_, _, _, _, _)
filterMoves(rs, moves, n, Reason(_), acc) ==
    IF n > Len(moves) THEN acc
    ELSE LET move == moves[n]
             why == Reason(move)
         IN  filterMoves(rs, moves, n + 1, Reason,
                IF why = NULL
                THEN [acc EXCEPT !.moves = Append(@, move)]
                ELSE [acc EXCEPT !.events = Append(@,
                         MoveBlockedEvent(rs.quantars[move.quantar].id, move.from,
                                          move.action.direction, why))])

validMoves(rs, intended) ==
    filterMoves(rs, intended.moves, 1,
                LAMBDA move : IF coreCollision(rs, move) THEN "blocked by Core" ELSE NULL,
                [moves |-> <<>>, events |-> intended.events])

\* variant: a destination is counted once however many moves aim at it
destinationCounts_once(moves, to) ==
    IF \E i \in 1..Len(moves) : moves[i].to = to THEN 1 ELSE 0

destinationCounts(moves, to) ==
    Cardinality({i \in 1..Len(moves) : moves[i].to = to})

\* new Map(validMoves.map(m => [m.quantar.id, m])): the last move of that id
movesByQuantar(rs, moves, id) ==
    LET hits == {i \in 1..Len(moves) : rs.quantars[moves[i].quantar].id = id}
    IN  IF hits = {} THEN 0 ELSE CHOOSE i \in hits : \A j \in hits : j <= i

\* variant: a move into the cell of an occupant that moves is never blocked
finalMoveBlock_noSwap(rs, moves, move) ==
    IF destinationCounts(moves, move.to) > 1 THEN "collision with another Quantar"
    ELSE LET targetOccupant ==
                 FindIndex(rs.quantars,
                           LAMBDA q : /\ q.hp > 0
                                      /\ q.id # rs.quantars[move.quantar].id
                                      /\ positionsEqual(q.position, move.to))
         IN  IF targetOccupant = 0 THEN NULL
             ELSE IF movesByQuantar(rs, moves, rs.quantars[targetOccupant].id) = 0
                  THEN "blocked by stationary Quantar"
             ELSE NULL

finalMoveBlock(rs, moves, move) ==
    IF destinationCounts(moves, move.to) > 1 THEN "collision with another Quantar"
    ELSE LET targetOccupant ==
                 FindIndex(rs.quantars,
                           LAMBDA q : /\ q.hp > 0
                                      /\ q.id # rs.quantars[move.quantar].id
                                      /\ positionsEqual(q.position, move.to))
         IN  IF targetOccupant = 0 THEN NULL
             ELSE LET occupantMove ==
                          movesByQuantar(rs, moves, rs.quantars[targetOccupant].id)
                  IN  IF occupantMove = 0 THEN "blocked by stationary Quantar"
                      ELSE IF positionsEqual(moves[occupantMove].to, move.from)
                           THEN "swap collision"
                      ELSE NULL

finalMoves(rs, valid) ==
    filterMoves(rs, valid.moves, 1,
                LAMBDA move : finalMoveBlock(rs, valid.moves, move),
                [moves |-> <<>>, events |-> valid.events])

\* the last loop: positions are written and Move events pushed, in order
RECURSIVE applyMoves(_, _, _)
applyMoves(rs, moves, n) ==
    IF n > Len(moves) THEN rs
    ELSE LET move == moves[n]
         IN  applyMoves(
                [rs EXCEPT !.quantars[move.quantar].position = move.to,
                           !.events = Append(@,
                               [type |-> "MOVE",
                                quantarId |-> rs.quantars[move.quantar].id,
                                from |-> move.from, to |-> move.to])],
                moves, n + 1)

resolveMoves(rs, actions) ==
    LET moveActions == SelectSeq(actions, LAMBDA a : a.type = "MOVE")
        intended == intendedMoves(rs, moveActions, Len(moveActions))
        final == finalMoves(rs, validMoves(rs, intended))
    IN  applyMoves([rs EXCEPT !.events = @ \o final.events], final.moves, 1)

----------------------------------------------------------------------------
(* Phase 2: SHIELD *)

RECURSIVE shieldLoop(_, _, _)
shieldLoop(rs, shieldActions, n) ==
    IF n > Len(shieldActions) THEN rs
    ELSE LET qi == getQuantarById(rs, shieldActions[n].quantarId)
         IN  shieldLoop(
                IF qi = 0 THEN rs
                ELSE IF rs.quantars[qi].hp <= 0 THEN rs
                ELSE [rs EXCEPT !.quantars[qi].shielded = TRUE,
                                !.events = Append(@,
                                    [type |-> "SHIELD_ACTIVATED",
                                     quantarId |-> rs.quantars[qi].id])],
                shieldActions, n + 1)

resolveShields(rs, actions) ==
    shieldLoop(rs, SelectSeq(actions, LAMBDA a : a.type = "SHIELD"), 1)

----------------------------------------------------------------------------
(* Phase 3: PULSE *)

\* the orthogonal beam: step from currentPos until the board is left (no hit)
\* or a cell holds an entity
RECURSIVE tracePulse(_, _, _)
tracePulse(rs, currentPos, direction) ==
    LET next == applyPulseDirection(currentPos, direction)
    IN  IF ~isInBounds(next) THEN [type |-> NULL]
        ELSE LET entity == getEntityAtPosition(rs, next)
             IN  IF entity.type # NULL THEN entity
                 ELSE tracePulse(rs, next, direction)

\* variant: a diagonal pulse travels like an orthogonal one
hitTarget_ranged(rs, origin, direction) == tracePulse(rs, origin, direction)

hitTarget(rs, origin, direction) ==
    IF isDiagonalPulse(direction)
    THEN LET currentPos == applyPulseDirection(origin, direction)
         IN  IF isInBounds(currentPos) THEN getEntityAtPosition(rs, currentPos)
             ELSE [type |-> NULL]
    ELSE tracePulse(rs, origin, direction)

coreId(owner) == "core_" \o owner

RECURSIVE pulseLoop(_, _, _)
pulseLoop(rs, pulseActions, n) ==
    IF n > Len(pulseActions) THEN rs
    ELSE LET action == pulseActions[n]
             qi == getQuantarById(rs, action.quantarId)
         IN  IF qi = 0 THEN pulseLoop(rs, pulseActions, n + 1)
             ELSE IF rs.quantars[qi].hp <= 0 THEN pulseLoop(rs, pulseActions, n + 1)
             ELSE
             LET quantar == rs.quantars[qi]
                 fired == [type |-> "PULSE_FIRED", quantarId |-> quantar.id,
                           from |-> quantar.position, direction |-> action.direction]
                 hit == hitTarget(rs, quantar.position, action.direction)
                 after ==
                     IF hit.type = "quantar"
                     THEN [rs EXCEPT
                             !.quantars[hit.entity].pendingDamage = @ + PULSE_DAMAGE,
                             !.events = @ \o <<fired,
                                 [type |-> "PULSE_HIT",
                                  targetId |-> rs.quantars[hit.entity].id,
                                  targetType |-> "quantar", damage |-> PULSE_DAMAGE]>>]
                     ELSE IF hit.type = "core"
                     THEN [rs EXCEPT
                             !.cores[hit.entity].pendingDamage = @ + PULSE_DAMAGE,
                             !.events = @ \o <<fired,
                                 [type |-> "PULSE_HIT",
                                  targetId |-> coreId(rs.cores[hit.entity].owner),
                                  targetType |-> "core", damage |-> PULSE_DAMAGE]>>]
                     ELSE [rs EXCEPT
                             !.events = @ \o <<fired,
                                 [type |-> "PULSE_MISS", quantarId |-> quantar.id]>>]
             IN  pulseLoop(after, pulseActions, n + 1)

\* variant: the pulse of a Quantar that the turn's pulses destroy is not fired
resolvePulses_survivorsOnly(rs, actions) ==
    LET pulses == SelectSeq(actions, LAMBDA a : a.type = "PULSE")
        traced == pulseLoop(rs, pulses, 1)
        survives(a) ==
            LET qi == getQuantarById(traced, a.quantarId)
            IN  qi = 0 \/ traced.quantars[qi].pendingDamage < traced.quantars[qi].hp
    IN  pulseLoop(rs, SelectSeq(pulses, survives), 1)

\* variant: the loop over the pulses returns after the first one
resolvePulses_firstOnly(rs, actions) ==
    LET pulses == SelectSeq(actions, LAMBDA a : a.type = "PULSE")
    IN  pulseLoop(rs, IF pulses = <<>> THEN pulses ELSE <<Head(pulses)>>, 1)

resolvePulses(rs, actions) ==
    pulseLoop(rs, SelectSeq(actions, LAMBDA a : a.type = "PULSE"), 1)

----------------------------------------------------------------------------
(* Phase 4: apply damage *)

Max(a, b) == IF a >= b THEN a ELSE b

\* variant: the shield absorbs every hit of the turn
quantarDamage_everyHit(quantar) ==
    IF quantar.shielded THEN 0 ELSE quantar.pendingDamage

quantarDamage(quantar) ==
    IF quantar.shielded THEN Max(0, quantar.pendingDamage - SHIELD_REDUCTION)
    ELSE quantar.pendingDamage

RECURSIVE damageQuantars(_, _)
damageQuantars(rs, n) ==
    IF n > Len(rs.quantars) THEN rs
    ELSE LET quantar == rs.quantars[n]
             actualDamage == quantarDamage(quantar)
         IN  damageQuantars(
                IF quantar.pendingDamage > 0
                THEN [rs EXCEPT !.quantars[n].hp = @ - actualDamage,
                                !.quantars[n].pendingDamage = 0,
                                !.events = Append(@,
                                    [type |-> "DAMAGE_APPLIED", targetId |-> quantar.id,
                                     damage |-> actualDamage,
                                     remainingHp |-> quantar.hp - actualDamage])]
                ELSE rs,
                n + 1)

\* variant: the pending damage is added to the Core's hp
damageCore_added(rs, p) ==
    LET core == rs.cores[p]
    IN  IF core.pendingDamage > 0
        THEN [rs EXCEPT !.cores[p].hp = @ + core.pendingDamage,
                        !.cores[p].pendingDamage = 0,
                        !.events = Append(@,
                            [type |-> "DAMAGE_APPLIED", targetId |-> coreId(core.owner),
                             damage |-> core.pendingDamage,
                             remainingHp |-> core.hp + core.pendingDamage])]
        ELSE rs

damageCore(rs, p) ==
    LET core == rs.cores[p]
    IN  IF core.pendingDamage > 0
        THEN [rs EXCEPT !.cores[p].hp = @ - core.pendingDamage,
                        !.cores[p].pendingDamage = 0,
                        !.events = Append(@,
                            [type |-> "DAMAGE_APPLIED", targetId |-> coreId(core.owner),
                             damage |-> core.pendingDamage,
                             remainingHp |-> core.hp - core.pendingDamage])]
        ELSE rs

applyDamage(rs) == damageCore(damageCore(damageQuantars(rs, 1), "A"), "B")

----------------------------------------------------------------------------
(* Phase 5: remove dead entities *)

EntityDestroyed(entityId, entityType) ==
    [type |-> "ENTITY_DESTROYED", entityId |-> entityId, entityType |-> entityType]

RECURSIVE destroyedQuantars(_, _)
destroyedQuantars(quantars, n) ==
    IF n > Len(quantars) THEN <<>>
    ELSE (IF quantars[n].hp <= 0
          THEN <<EntityDestroyed(quantars[n].id, "quantar")>> ELSE <<>>)
         \o destroyedQuantars(quantars, n + 1)

destroyedCore(core) ==
    IF core.hp <= 0 THEN <<EntityDestroyed(coreId(core.owner), "core")>> ELSE <<>>

\* variant: the filter keeps a Quantar at exactly 0 hp
livingQuantars_atZero(quantars) == SelectSeq(quantars, LAMBDA q : q.hp >= 0)

\* state.quantars.filter((q) => q.hp > 0)
livingQuantars(quantars) == SelectSeq(quantars, LAMBDA q : q.hp > 0)

removeDeadEntities(rs) ==
    [rs EXCEPT !.events = @ \o destroyedQuantars(rs.quantars, 1)
                            \o destroyedCore(rs.cores.A) \o destroyedCore(rs.cores.B),
               !.quantars = livingQuantars(@)]

----------------------------------------------------------------------------
(* Phase 6: check win condition *)

WinConditionResult(winner, terminalLoss, isDraw) ==
    [winner |-> winner, terminalLoss |-> terminalLoss, isDraw |-> isDraw]

\* variant: the owner of the destroyed Core is returned as the winner
coreDestroyed_ownerWins(coreADead, coreBDead) ==
    IF coreADead /\ coreBDead THEN WinConditionResult(NULL, NULL, TRUE)
    ELSE IF coreADead THEN WinConditionResult("A", NULL, FALSE)
    ELSE WinConditionResult("B", NULL, FALSE)

\* variant: the check for both Cores destroyed is missing
coreDestroyed_noMutual(coreADead, coreBDead) ==
    IF coreADead THEN WinConditionResult("B", NULL, FALSE)
    ELSE WinConditionResult("A", NULL, FALSE)

\* Primary win: a Core is destroyed (at least one of the two flags holds)
coreDestroyed(coreADead, coreBDead) ==
    IF coreADead /\ coreBDead THEN WinConditionResult(NULL, NULL, TRUE)
    ELSE IF coreADead THEN WinConditionResult("B", NULL, FALSE)
    ELSE WinConditionResult("A", NULL, FALSE)

\* variant: the loser is not reported, so no TerminalLoss event is pushed
noQuantars_unreported(lengthA, lengthB) ==
    IF lengthA = 0 /\ lengthB = 0 THEN WinConditionResult(NULL, NULL, TRUE)
    ELSE IF lengthA = 0 THEN WinConditionResult("B", NULL, FALSE)
    ELSE IF lengthB = 0 THEN WinConditionResult("A", NULL, FALSE)
    ELSE WinConditionResult(NULL, NULL, FALSE)

\* variant: the check for both players without Quantars is missing
noQuantars_noMutual(lengthA, lengthB) ==
    IF lengthA = 0 THEN WinConditionResult("B", "A", FALSE)
    ELSE IF lengthB = 0 THEN WinConditionResult("A", "B", FALSE)
    ELSE WinConditionResult(NULL, NULL, FALSE)

\* Terminal loss: a player without living Quantars at the end of the turn
noQuantars(lengthA, lengthB) ==
    IF lengthA = 0 /\ lengthB = 0 THEN WinConditionResult(NULL, NULL, TRUE)
    ELSE IF lengthA = 0 THEN WinConditionResult("B", "A", FALSE)
    ELSE IF lengthB = 0 THEN WinConditionResult("A", "B", FALSE)
    ELSE WinConditionResult(NULL, NULL, FALSE)

checkWinCondition(rs) ==
    LET coreADead == rs.cores.A.hp <= 0
        coreBDead == rs.cores.B.hp <= 0
        quantarsA == SelectSeq(rs.quantars, LAMBDA q : q.owner = "A" /\ q.hp > 0)
        quantarsB == SelectSeq(rs.quantars, LAMBDA q : q.owner = "B" /\ q.hp > 0)
    IN  IF coreADead \/ coreBDead THEN coreDestroyed(coreADead, coreBDead)
        ELSE noQuantars(Len(quantarsA), Len(quantarsB))

----------------------------------------------------------------------------
(* Main resolution function *)

\* the mutable state created for the resolution
resolutionState(st) ==
    [quantars |-> Map(st.quantars, LAMBDA q, i : toMutableQuantar(q, QuantarRef(i))),
     cores    |-> [A |-> toMutableCore(st.cores.A, CoreRef("A")),
                   B |-> toMutableCore(st.cores.B, CoreRef("B"))],
     events   |-> <<>>]

\* variant: the pulses are traced before the moves are applied
executePhases_pulseFirst(in) ==
    LET allActions == in.actionsA \o in.actionsB
    IN  applyDamage(
            resolveMoves(
                resolveShields(
                    resolvePulses(resolutionState(in.state), allActions),
                    allActions),
                allActions))

\* variant: the shields are raised before the moves are resolved
executePhases_shieldFirst(in) ==
    LET allActions == in.actionsA \o in.actionsB
    IN  applyDamage(
            resolvePulses(
                resolveMoves(
                    resolveShields(resolutionState(in.state), allActions),
                    allActions),
                allActions))

\* variant: the combined list holds B's actions first
executePhases_BFirst(in) ==
    LET allActions == in.actionsB \o in.actionsA
    IN  applyDamage(
            resolvePulses(
                resolveShields(
                    resolveMoves(resolutionState(in.state), allActions),
                    allActions),
                allActions))

\* resolveMoves .. applyDamage on the combined action list: every write to a
\* Quantar or Core object of the resolution is made by these four phases
executePhases(in) ==
    LET allActions == in.actionsA \o in.actionsB
    IN  applyDamage(
            resolvePulses(
                resolveShields(
                    resolveMoves(resolutionState(in.state), allActions),
                    allActions),
                allActions))

\* variant: the turn is not advanced
nextTurn_same(st) == st.turn

nextTurn(st) == st.turn + 1

\* variant: the limit is compared with > instead of >=
isMaxTurnsReached_late(win, st) ==
    win.winner = NULL /\ ~win.isDraw /\ st.turn + 1 > MAX_TURNS

\* variant: the limit is compared with === instead of >=
isMaxTurnsReached_exact(win, st) ==
    win.winner = NULL /\ ~win.isDraw /\ nextTurn(st) = MAX_TURNS

isMaxTurnsReached(win, st) ==
    win.winner = NULL /\ ~win.isDraw /\ nextTurn(st) >= MAX_TURNS

\* variant: reaching the turn limit does not end the game
gameEnded_noLimit(win, st) == win.winner # NULL \/ win.isDraw

gameEnded(win, st) ==
    win.winner # NULL \/ win.isDraw \/ isMaxTurnsReached(win, st)

\* the events pushed after checkWinCondition: TerminalLoss, GameOver, Draw
outcomeEvents(win, st) ==
    (IF win.terminalLoss # NULL
     THEN <<[type |-> "TERMINAL_LOSS", loser |-> win.terminalLoss,
             reason |-> "no_quantars"]>>
     ELSE <<>>)
    \o (IF win.winner # NULL
        THEN <<[type |-> "GAME_OVER", winner |-> win.winner]>>
        ELSE <<>>)
    \o (IF isMaxTurnsReached(win, st) \/ win.isDraw
        THEN <<[type |-> "DRAW",
                reason |-> IF win.isDraw THEN "mutual_destruction" ELSE "max_turns"]>>
        ELSE <<>>)

\* variant: the draw at the turn limit is logged but the phase is kept
newState_playingOn(st, rs, win) ==
    [turn     |-> nextTurn(st),
     phase    |-> IF win.winner # NULL \/ win.isDraw THEN "ended" ELSE "playing",
     quantars |-> Map(rs.quantars, LAMBDA q, i : toImmutableQuantar(q)),
     cores    |-> [A |-> toImmutableCore(rs.cores.A),
                   B |-> toImmutableCore(rs.cores.B)],
     winner   |-> win.winner]

\* the final immutable state
newState(st, rs, win) ==
    [turn     |-> nextTurn(st),
     phase    |-> IF gameEnded(win, st) THEN "ended" ELSE "playing",
     quantars |-> Map(rs.quantars, LAMBDA q, i : toImmutableQuantar(q)),
     cores    |-> [A |-> toImmutableCore(rs.cores.A),
                   B |-> toImmutableCore(rs.cores.B)],
     winner   |-> win.winner]

\* from removeDeadEntities to the returned TurnResult
finishTurn(in, damaged) ==
    LET rs == removeDeadEntities(damaged)
        win == checkWinCondition(rs)
    IN  [state |-> newState(in.state, rs, win),
         log   |-> [turn   |-> in.state.turn,
                    events |-> rs.events \o outcomeEvents(win, in.state)]]

resolveTurn(in) == finishTurn(in, executePhases(in))

\* The caller's state object as it reads once the call has returned: an input
\* Quantar or Core reads as written by the phases if a working object is that
\* very object, and as it was otherwise.
readBack(in, damaged) ==
    LET quantarAt(i) ==
            LET j == FindIndex(damaged.quantars, LAMBDA q : q.obj = QuantarRef(i))
            IN  IF j = 0 THEN in.state.quantars[i]
                ELSE toImmutableQuantar(damaged.quantars[j])
        coreAt(p) ==
            IF damaged.cores[p].obj = CoreRef(p)
            THEN toImmutableCore(damaged.cores[p])
            ELSE in.state.cores[p]
    IN  [in.state EXCEPT
            !.quantars = Map(in.state.quantars, LAMBDA q, i : quantarAt(i)),
            !.cores = [A |-> coreAt("A"), B |-> coreAt("B")]]

----------------------------------------------------------------------------
(* The callers: the action lists submitted for a turn *)

Move(id, dir) == [type |-> "MOVE", quantarId |-> id, direction |-> dir]
Pulse(id, dir) == [type |-> "PULSE", quantarId |-> id, direction |-> dir]
Shield(id) == [type |-> "SHIELD", quantarId |-> id]

ActionListsA ==
    { <<Shield("A1"), Shield("A2"), Shield("A3")>>,
      <<Pulse("A1", "E"), Pulse("A2", "N"), Pulse("A3", "W")>>,
      <<Move("A1", "S"), Pulse("A2", "S"), Move("A3", "S")>>,
      <<Pulse("A1", "SE"), Pulse("A2", "S"), Pulse("A3", "SW")>> }

ActionListsB ==
    { <<Shield("B1"), Shield("B2"), Shield("B3")>>,
      <<Pulse("B1", "E"), Pulse("B2", "S"), Pulse("B3", "W")>>,
      <<Move("B1", "N"), Pulse("B2", "N"), Move("B3", "N")>>,
      <<Pulse("B1", "NE"), Pulse("B2", "N"), Pulse("B3", "NW")>> }

AllShield(p) == <<Shield(p \o "1"), Shield(p \o "2"), Shield(p \o "3")>>

\* no submission has been validated against the current state
NotValidated == [called |-> FALSE]

\* the current state has not been compared with another one
NotCompared == [called |-> FALSE]

\* Bounds of the exploration.  The action lists of a turn are chosen freely
\* from ActionListsA and ActionListsB in at most MaxPlayed turns, which are
\* either the first turns of the game or the turns that follow QuietTurns
\* turns in which both players shield every Quantar.
QuietTurns == 46
MaxPlayed == 3

Init ==
    /\ state = createInitialState
    /\ log = [turn |-> 0, events |-> <<>>]
    /\ input = [state |-> state, actionsA |-> <<>>, actionsB |-> <<>>]
    /\ inputAfter = state
    /\ calls = 0
    /\ played = 0
    /\ validation = NotValidated
    /\ comparison = NotCompared

\* one call result = resolveTurn({state, actionsA, actionsB}), the caller
\* keeping result.state as its state
ResolveTurn(actionsA, actionsB) ==
    /\ LET in == [state |-> state, actionsA |-> actionsA, actionsB |-> actionsB]
           damaged == executePhases(in)
           result == finishTurn(in, damaged)
       IN  /\ state' = result.state
           /\ log' = result.log
           /\ input' = in
           /\ inputAfter' = readBack(in, damaged)
    /\ calls' = calls + 1
    /\ validation' = NotValidated
    /\ comparison' = NotCompared

PlayTurn ==
    /\ played < MaxPlayed
    /\ played = 0 => state.turn \in {1, QuietTurns + 1}
    /\ \E actionsA \in ActionListsA, actionsB \in ActionListsB :
          ResolveTurn(actionsA, actionsB)
    /\ played' = played + 1

QuietTurn ==
    /\ played = 0
    /\ state.turn <= QuietTurns
    /\ ResolveTurn(AllShield("A"), AllShield("B"))
    /\ UNCHANGED played

Next == PlayTurn \/ QuietTurn

Spec == Init /\ [][Next]_vars

----------------------------------------------------------------------------
(* Calls after the end.  resolveTurn reads no phase: a caller that keeps    *)
(* calling it with the state of an ended game gets a result.  The game is  *)
(* brought to its end in at most MaxEnding turns, played at the start or   *)
(* after the quiet turns, in which B answers A's list with the mirrored    *)
(* list or shields; the ended game is then resolved in at most MaxOverrun  *)
(* further calls.                                                           *)

MirrorId == [id \in {"A1", "A2", "A3"} |->
                CASE id = "A1" -> "B1" [] id = "A2" -> "B2" [] id = "A3" -> "B3"]

\* B faces A: North and South are exchanged
MirrorDirection ==
    [dir \in ALL_PULSE_DIRECTIONS |->
        CASE dir = "N" -> "S"   [] dir = "S" -> "N"
          [] dir = "NE" -> "SE" [] dir = "SE" -> "NE"
          [] dir = "NW" -> "SW" [] dir = "SW" -> "NW"
          [] OTHER -> dir]

Mirror(actions) ==
    Map(actions,
        LAMBDA a, i :
            IF a.type = "SHIELD" THEN Shield(MirrorId[a.quantarId])
            ELSE [a EXCEPT !.quantarId = MirrorId[@],
                           !.direction = MirrorDirection[@]])

EndingTurns ==
    {<<actionsA, Mirror(actionsA)>> : actionsA \in ActionListsA}
    \cup {<<actionsA, AllShield("B")>> :
             actionsA \in {<<Pulse("A1", "E"), Pulse("A2", "N"), Pulse("A3", "W")>>,
                           <<Pulse("A1", "SE"), Pulse("A2", "S"), Pulse("A3", "SW")>>}}

OverrunTurns == {<<actionsA, Mirror(actionsA)>> : actionsA \in ActionListsA}

MaxEnding == 3
MaxOverrun == 1

Ending ==
    /\ played < MaxEnding
    /\ played = 0 => state.turn \in {1, QuietTurns + 1}
    /\ \E turn \in EndingTurns : ResolveTurn(turn[1], turn[2])
    /\ played' = played + 1

Overrun ==
    /\ state.phase = "ended"
    /\ played < MaxEnding + MaxOverrun
    /\ \E turn \in OverrunTurns : ResolveTurn(turn[1], turn[2])
    /\ played' = played + 1

NextEnded == Ending \/ QuietTurn \/ Overrun

SpecEnded == Init /\ [][NextEnded]_vars

----------------------------------------------------------------------------
(* Skirmishes: the first turns of a game in which Quantars move into, along *)
(* and out of beams, contend for cells and are hit while shielded.  Two    *)
(* lists of player A hold two actions for the same Quantar, which          *)
(* resolveTurn accepts as it does not validate.                            *)

SkirmishListsA ==
    { AllShield("A"),
      <<Shield("A1"), Move("A2", "E"), Move("A3", "E")>>,
      <<Shield("A1"), Move("A2", "N"), Shield("A3")>>,
      <<Shield("A1"), Move("A2", "N"), Pulse("A2", "N"), Shield("A3")>>,
      <<Move("A1", "E"), Move("A2", "N"), Move("A3", "W")>>,
      <<Move("A1", "E"), Shield("A2"), Shield("A3")>>,
      <<Move("A1", "E"), Move("A2", "E"), Shield("A3")>>,
      <<Move("A1", "E"), Move("A2", "W"), Shield("A3")>>,
      <<Move("A1", "N"), Move("A1", "W"), Shield("A2"), Shield("A3")>>,
      <<Pulse("A1", "E"), Pulse("A2", "N"), Pulse("A3", "W")>> }

SkirmishListsB ==
    { AllShield("B"),
      <<Pulse("B1", "E"), Shield("B2"), Pulse("B3", "W")>>,
      <<Shield("B1"), Pulse("B2", "S"), Shield("B3")>>,
      <<Move("B1", "E"), Move("B2", "N"), Shield("B3")>> }

MaxSkirmish == 2

Skirmish ==
    /\ calls < MaxSkirmish
    /\ \E actionsA \in SkirmishListsA, actionsB \in SkirmishListsB :
          ResolveTurn(actionsA, actionsB)
    /\ UNCHANGED played

NextSkirmish == Skirmish

SpecSkirmish == Init /\ [][NextSkirmish]_vars

----------------------------------------------------------------------------
(* Validation of submissions.  The game is advanced by player A's lists of *)
(* ActionListsA against an opponent that shields, which leaves states with *)
(* destroyed Quantars, Quantars on the board's edge and an ended game; on   *)
(* each state every sequence of at most MaxActions actions of              *)
(* SubmittedActions is validated for either player, together with each of  *)
(* its actions.  Validation reads the state and writes nothing, so the     *)
(* game is advanced from the states that hold no validation result.        *)

SubmittedActions ==
    { Shield("A1"), Shield("A2"), Shield("A3"),
      Move("A1", "S"), Pulse("A2", "X"), Move("B1", "N"),
      [type |-> "TELEPORT", quantarId |-> "A3"],
      [quantarId |-> "A1"] }

MaxActions == 3
MaxAdvance == 3

Submissions ==
    UNION {[1..n -> SubmittedActions] : n \in 0..MaxActions}

Advance ==
    /\ ~validation.called
    /\ ~comparison.called
    /\ calls < MaxAdvance
    /\ \E actionsA \in ActionListsA \ {AllShield("A")} :
          ResolveTurn(actionsA, AllShield("B"))
    /\ UNCHANGED played

Validate ==
    /\ ~validation.called
    /\ \E actions \in Submissions, playerId \in Player :
          validation' =
              [called   |-> TRUE,
               actions  |-> actions,
               playerId |-> playerId,
               result   |-> validatePlayerActions(state, actions, playerId),
               each     |-> Map(actions,
                                LAMBDA a, i : validateAction(state, a, playerId))]
    /\ UNCHANGED <<state, log, input, inputAfter, calls, played, comparison>>

NextValidate == Advance \/ Validate

SpecValidate == Init /\ [][NextValidate]_vars

----------------------------------------------------------------------------
(* Comparison of states.  The state of the game is compared with GameState *)
(* values that differ from it in the order of the quantars array, in one   *)
(* field, or in both, with the state before the latest turn and with a     *)
(* fresh initial state.                                                    *)

Reversed(seq) == Map(seq, LAMBDA q, i : seq[Len(seq) + 1 - i])

Rotated(seq) == IF seq = <<>> THEN seq ELSE Append(Tail(seq), Head(seq))

Reordered(st) ==
    {st, [st EXCEPT !.quantars = Reversed(@)], [st EXCEPT !.quantars = Rotated(@)]}

\* GameState values that differ from st in one field
Altered(st) ==
    {[st EXCEPT !.turn = @ + 1],
     [st EXCEPT !.phase = IF @ = "playing" THEN "ended" ELSE "playing"],
     [st EXCEPT !.winner = IF @ = "A" THEN NULL ELSE "A"],
     [st EXCEPT !.cores.A.hp = @ - 1],
     [st EXCEPT !.cores.B.position.x = @ + 1],
     [st EXCEPT !.cores.B.owner = "A"]}
    \cup (IF st.quantars = <<>> THEN {}
          ELSE {[st EXCEPT !.quantars[1].hp = @ - 1],
                [st EXCEPT !.quantars[1].position.y = @ + 1],
                [st EXCEPT !.quantars[1].position = Pos(@.y, @.x)],
                [st EXCEPT !.quantars[1].owner = getOpponent(@)],
                [st EXCEPT !.quantars = Tail(@)]})

Compared(st) ==
    UNION {Reordered(other) : other \in {st, input.state, createInitialState}
                                          \cup Altered(st)}

Compare ==
    /\ ~comparison.called
    /\ ~validation.called
    /\ \E other \in Compared(state) :
          comparison' = [called     |-> TRUE,
                         b          |-> other,
                         canonicalA |-> canonicalizeState(state),
                         canonicalB |-> canonicalizeState(other),
                         equal      |-> statesEqual(state, other)]
    /\ UNCHANGED <<state, log, input, inputAfter, calls, played, validation>>

NextCompare == Advance \/ Compare

SpecCompare == Init /\ [][NextCompare]_vars

----------------------------------------------------------------------------
(* Manoeuvres: turns in which Quantars swap cells, follow each other, run   *)
(* into the Cores and the edge of the board, and in which a list names     *)
(* Quantars of the opponent or Quantars that do not exist, which           *)
(* resolveTurn accepts as it does not validate.  They are played at the    *)
(* start of a game and after a march that takes A1 next to the Core of B,  *)
(* A2 and A3 next to the Core of A, and the Core of A down to 1 hp.         *)

ManoeuvreListsA ==
    { AllShield("A"),
      <<Move("A1", "E"), Move("A2", "W"), Shield("A3")>>,
      <<Move("A1", "E"), Move("A2", "W"), Move("A3", "W")>>,
      <<Move("A1", "E"), Move("A2", "N"), Shield("A3")>>,
      <<Move("A1", "E"), Move("A2", "E"), Shield("A3")>>,
      <<Move("A1", "E"), Move("A2", "S"), Move("A3", "W")>>,
      <<Move("A1", "N"), Pulse("A2", "S"), Move("A3", "S")>>,
      <<Pulse("A1", "E"), Shield("A2"), Pulse("A3", "W")>>,
      <<Pulse("A1", "SE"), Pulse("A2", "SE"), Shield("A3")>>,
      <<Shield("A1"), Shield("A2"), Shield("A3"),
        Move("B1", "S"), Shield("B2"), Pulse("B3", "S")>>,
      <<Move("A7", "N"), Shield("A1"), Shield("A8"), Shield("A2"),
        Pulse("A9", "N"), Shield("A3")>> }

ManoeuvreListsB ==
    { AllShield("B"),
      <<Pulse("B1", "S"), Pulse("B2", "S"), Pulse("B3", "S")>>,
      <<Move("B1", "E"), Move("B2", "N"), Shield("B3")>> }

MarchOut ==
    [actionsA |-> <<Move("A1", "N"), Move("A2", "S"), Move("A3", "S")>>,
     actionsB |-> <<Move("B1", "W"), Shield("B2"), Shield("B3")>>]

MarchOn ==
    [actionsA |-> <<Move("A1", "N"), Shield("A2"), Move("A3", "S")>>,
     actionsB |-> AllShield("B")]

MarchUnderFire ==
    [actionsA |-> <<Move("A1", "N"), Pulse("A2", "S"), Shield("A3")>>,
     actionsB |-> AllShield("B")]

MarchScript ==
    <<MarchOut, MarchOn, MarchUnderFire, MarchUnderFire, MarchUnderFire,
      MarchUnderFire>>

MaxManoeuvre == 2

March ==
    /\ played = 0
    /\ calls < Len(MarchScript)
    /\ ResolveTurn(MarchScript[calls + 1].actionsA, MarchScript[calls + 1].actionsB)
    /\ UNCHANGED played

Manoeuvre ==
    /\ played < MaxManoeuvre
    /\ played = 0 => calls \in {0, Len(MarchScript)}
    /\ \E actionsA \in ManoeuvreListsA, actionsB \in ManoeuvreListsB :
          ResolveTurn(actionsA, actionsB)
    /\ played' = played + 1

NextManoeuvre == March \/ Manoeuvre

SpecManoeuvre == Init /\ [][NextManoeuvre]_vars

----------------------------------------------------------------------------
(* Properties of resolveTurn.  They read the latest call: input is what was *)
(* passed, state and log are what it returned.                              *)

Called == calls > 0

EventIndexes == 1..Len(log.events)

HasEvent(type) == \E i \in EventIndexes : log.events[i].type = type

HasDraw(reason) ==
    \E i \in EventIndexes :
        log.events[i].type = "DRAW" /\ log.events[i].reason = reason

HasGameOver(winner) ==
    \E i \in EventIndexes :
        log.events[i].type = "GAME_OVER" /\ log.events[i].winner = winner

CoreDead(p) == state.cores[p].hp <= 0

Survivors(p) == {i \in 1..Len(state.quantars) : state.quantars[i].owner = p}

\* C2: resolveTurn never changes its input state: once the call has returned,
\* the GameState object that was passed (turn, phase, winner, every Quantar's
\* position and hp, both Cores' hp) reads exactly as it did when passed.
C2_InputNotMutated == Called => inputAfter = input.state

\* a call that moved Quantars and damaged Quantars and a Core in its working copy
C2_Witness ==
    /\ Called
    /\ HasEvent("MOVE")
    /\ state.quantars # input.state.quantars
    /\ Len(state.quantars) < Len(input.state.quantars)
    /\ state.cores # input.state.cores

\* C3: whatever the outcome, result.state.turn is the input turn + 1 and
\* result.log.turn is the input turn.
C3_TurnMonotonicity ==
    Called => state.turn = input.state.turn + 1 /\ log.turn = input.state.turn

\* a call that ended the game with a winner
C3_Witness ==
    /\ Called
    /\ input.state.phase = "playing"
    /\ state.phase = "ended"
    /\ state.winner # NULL
    /\ state.turn = input.state.turn + 1

\* C4: every Quantar of a reachable state has 0 < hp <= QUANTAR_HP, and a
\* Quantar whose hp reached 0 or less in the DAMAGE phase is not in the
\* resulting state.
C4_LiveQuantars ==
    /\ \A i \in 1..Len(state.quantars) :
          state.quantars[i].hp > 0 /\ state.quantars[i].hp <= QUANTAR_HP
    /\ \A e \in EventIndexes :
          (/\ log.events[e].type = "DAMAGE_APPLIED"
           /\ log.events[e].targetId \notin {coreId("A"), coreId("B")}
           /\ log.events[e].remainingHp <= 0)
          => \A i \in 1..Len(state.quantars) :
                state.quantars[i].id # log.events[e].targetId

\* a turn in which a Quantar was brought below 0 hp and another one survived
\* with damage
C4_Witness ==
    /\ \E e \in EventIndexes :
          /\ log.events[e].type = "DAMAGE_APPLIED"
          /\ log.events[e].targetId \notin {coreId("A"), coreId("B")}
          /\ log.events[e].remainingHp < 0
    /\ \E i \in 1..Len(state.quantars) : state.quantars[i].hp = 1

\* C5: no Core of a reachable state has a negative hp, also when a Core with
\* low hp is hit by several pulses in the same turn.
C5_CoreHpNotNegative == \A p \in Player : state.cores[p].hp >= 0

\* C6: phase is Ended iff winner is non-null or the log has a Draw event; a
\* GameOver event is in the log iff winner is non-null, and it names that
\* winner; the log never has both GameOver and Draw; otherwise phase is Playing
\* with winner null.
C6_PhaseWinnerEvents ==
    Called =>
        /\ state.phase = "ended" <=> (state.winner # NULL \/ HasEvent("DRAW"))
        /\ HasEvent("GAME_OVER") <=> state.winner # NULL
        /\ \A w \in Player : HasGameOver(w) => state.winner = w
        /\ ~(HasEvent("GAME_OVER") /\ HasEvent("DRAW"))
        /\ state.phase # "ended" => (state.phase = "playing" /\ state.winner = NULL)

\* a game ended by a Draw event alone, at the turn limit
C6_Witness ==
    /\ Called
    /\ state.phase = "ended"
    /\ state.winner = NULL
    /\ HasDraw("max_turns")
    /\ ~HasEvent("GAME_OVER")

\* C7: if exactly one Core has hp <= 0 after the turn's damage, the opponent of
\* its owner is the winner, phase is Ended, the log has GameOver(winner) and
\* neither TerminalLoss nor Draw, whatever the Quantar counts and the turn.
C7_OneCoreDestroyed ==
    Called =>
        \A p \in Player :
            (CoreDead(p) /\ ~CoreDead(getOpponent(p))) =>
                /\ state.winner = getOpponent(p)
                /\ state.phase = "ended"
                /\ HasGameOver(getOpponent(p))
                /\ ~HasEvent("TERMINAL_LOSS")
                /\ ~HasEvent("DRAW")

\* one Core destroyed by this turn's damage, on the turn that reaches MAX_TURNS,
\* the winner being left without Quantars
C7_Witness ==
    /\ Called
    /\ \E p \in Player :
          /\ CoreDead(p) /\ ~CoreDead(getOpponent(p))
          /\ input.state.cores[p].hp > 0
          /\ Survivors(getOpponent(p)) = {}
          /\ Survivors(p) # {}
    /\ state.turn = MAX_TURNS

\* C8: if both Cores have hp <= 0 after the turn's damage the result is a draw:
\* winner null, phase Ended, a Draw event with the mutual-destruction reason
\* and none with "max_turns", no GameOver and no TerminalLoss.
C8_BothCoresDestroyed ==
    Called =>
        ((CoreDead("A") /\ CoreDead("B")) =>
            /\ state.winner = NULL
            /\ state.phase = "ended"
            /\ HasDraw("mutual_destruction")
            /\ ~HasDraw("max_turns")
            /\ ~HasEvent("GAME_OVER")
            /\ ~HasEvent("TERMINAL_LOSS"))

\* both Cores destroyed by the damage of the same turn, the one that reaches
\* MAX_TURNS
C8_Witness ==
    /\ Called
    /\ CoreDead("A") /\ CoreDead("B")
    /\ input.state.cores.A.hp > 0 /\ input.state.cores.B.hp > 0
    /\ state.turn = MAX_TURNS

TerminalLossAt(i, loser) ==
    /\ log.events[i].type = "TERMINAL_LOSS"
    /\ log.events[i].loser = loser
    /\ log.events[i].reason = "no_quantars"

GameOverAt(i, winner) ==
    /\ i \in EventIndexes
    /\ log.events[i].type = "GAME_OVER"
    /\ log.events[i].winner = winner

\* C9: if both Cores have hp > 0 after the turn and exactly one player has no
\* surviving Quantar, the other player wins: winner = opponent, phase Ended,
\* TerminalLoss(loser, "no_quantars") immediately followed by
\* GameOver(winner) in the log, and no Draw event.
C9_TerminalLoss ==
    Called =>
        \A p \in Player :
            (/\ ~CoreDead("A") /\ ~CoreDead("B")
             /\ Survivors(p) = {} /\ Survivors(getOpponent(p)) # {}) =>
                /\ state.winner = getOpponent(p)
                /\ state.phase = "ended"
                /\ \E i \in EventIndexes :
                      TerminalLossAt(i, p) /\ GameOverAt(i + 1, getOpponent(p))
                /\ ~HasEvent("DRAW")

\* the last Quantars of one player destroyed in this turn, Cores standing
C9_Witness ==
    /\ Called
    /\ ~CoreDead("A") /\ ~CoreDead("B")
    /\ \E p \in Player :
          /\ Survivors(p) = {} /\ Survivors(getOpponent(p)) # {}
          /\ \E i \in 1..Len(input.state.quantars) :
                input.state.quantars[i].owner = p
    /\ HasEvent("TERMINAL_LOSS")

\* neither a winner nor a mutual-destruction draw came out of the turn
Undecided ==
    /\ state.winner = NULL
    /\ ~(CoreDead("A") /\ CoreDead("B"))
    /\ ~(Survivors("A") = {} /\ Survivors("B") = {})

\* C10: when the turn produces no winner and no mutual-destruction draw, the
\* result is Ended with winner null and a Draw event of reason "max_turns"
\* exactly when input turn + 1 >= MAX_TURNS; below that it is Playing with no
\* Draw event.
C10_MaxTurnsDraw ==
    (Called /\ Undecided) =>
        IF input.state.turn + 1 >= MAX_TURNS
        THEN state.phase = "ended" /\ state.winner = NULL /\ HasDraw("max_turns")
        ELSE state.phase = "playing" /\ ~HasEvent("DRAW")

\* the turn 49 -> 50 ends an undecided game in a draw
C10_Witness ==
    /\ Called
    /\ Undecided
    /\ input.state.turn = MAX_TURNS - 1
    /\ state.turn = MAX_TURNS
    /\ state.phase = "ended"
    /\ HasDraw("max_turns")

\* the turn 48 -> 49 of an undecided game keeps playing
C10_WitnessBelow ==
    /\ Called
    /\ Undecided
    /\ input.state.turn = MAX_TURNS - 2
    /\ state.phase = "playing"

----------------------------------------------------------------------------
(* The phases of a turn, read from the log of the latest call *)

InputIndexes == 1..Len(input.state.quantars)

MoveEvents(id) ==
    {e \in EventIndexes :
        log.events[e].type = "MOVE" /\ log.events[e].quantarId = id}

Moved(id) == MoveEvents(id) # {}

\* where the i-th Quantar of the input stands once the MOVE phase is over
PostMovePosition(i) ==
    LET q == input.state.quantars[i]
    IN  IF Moved(q.id)
        THEN log.events[CHOOSE e \in MoveEvents(q.id) :
                            \A f \in MoveEvents(q.id) : f <= e].to
        ELSE q.position

\* ids of the entities standing in a cell once the MOVE phase is over
Occupants(cell) ==
    {input.state.quantars[i].id : i \in {j \in InputIndexes : PostMovePosition(j) = cell}}
    \cup {coreId(p) : p \in {r \in Player : input.state.cores[r].position = cell}}

RayCell(from, dir, k) ==
    Pos(from.x + k * PULSE_DIRECTION_DELTAS[dir].x,
        from.y + k * PULSE_DIRECTION_DELTAS[dir].y)

\* the occupants of the first occupied cell of the ray: the whole board for an
\* orthogonal pulse, the adjacent cell for a diagonal one
FirstOnRay(from, dir) ==
    LET reach == IF dir \in DIAGONAL_DIRECTIONS THEN 1 ELSE BOARD_SIZE
        ks == {k \in 1..reach :
                  /\ isInBounds(RayCell(from, dir, k))
                  /\ Occupants(RayCell(from, dir, k)) # {}}
    IN  IF ks = {} THEN {}
        ELSE Occupants(RayCell(from, dir, CHOOSE k \in ks : \A j \in ks : k <= j))

PulseFiredEvents == {e \in EventIndexes : log.events[e].type = "PULSE_FIRED"}

\* C11: pulses are traced on the positions that hold after the MOVE phase of
\* the same turn: every pulse starts at the shooter's post-move position and
\* hits an entity iff that entity stands, after the moves, in the first occupied
\* cell of the ray; it misses iff the ray holds no entity after the moves.
C11_PulsesAfterMoves ==
    Called =>
        \A e \in PulseFiredEvents :
            /\ \E i \in InputIndexes :
                  /\ input.state.quantars[i].id = log.events[e].quantarId
                  /\ log.events[e].from = PostMovePosition(i)
            /\ e + 1 \in EventIndexes
            /\ LET targets == FirstOnRay(log.events[e].from, log.events[e].direction)
               IN  IF targets = {}
                   THEN log.events[e + 1].type = "PULSE_MISS"
                   ELSE /\ log.events[e + 1].type = "PULSE_HIT"
                        /\ log.events[e + 1].targetId \in targets

\* a Quantar that moved this turn is hit in its new cell
C11_Witness ==
    /\ Called
    /\ \E e \in PulseFiredEvents :
          /\ log.events[e + 1].type = "PULSE_HIT"
          /\ Moved(log.events[e + 1].targetId)

\* a Quantar that stood first on the ray moved off it and the beam went on to
\* the Core behind it
C11_WitnessOffRay ==
    /\ Called
    /\ \E e \in PulseFiredEvents :
          /\ log.events[e].quantarId = "B2" /\ log.events[e].direction = "S"
          /\ log.events[e + 1].type = "PULSE_HIT"
          /\ log.events[e + 1].targetId = coreId("A")
          /\ Moved("A2")
          /\ \E i \in InputIndexes :
                /\ input.state.quantars[i].id = "A2"
                /\ input.state.quantars[i].position.x = log.events[e].from.x

\* the shooter itself moved this turn before firing
C11_WitnessShooterMoved ==
    /\ Called
    /\ \E e \in PulseFiredEvents : Moved(log.events[e].quantarId)

\* number of pulses that hit the entity in this turn
Hits(id) ==
    Cardinality({e \in EventIndexes :
                    log.events[e].type = "PULSE_HIT" /\ log.events[e].targetId = id})

\* the Quantar is referenced by a Shield action of this turn
HasShieldAction(id) ==
    LET allActions == input.actionsA \o input.actionsB
    IN  \E a \in 1..Len(allActions) :
            allActions[a].type = "SHIELD" /\ allActions[a].quantarId = id

\* the hp the i-th Quantar of the input is to lose in this turn
ExpectedLoss(i) ==
    LET id == input.state.quantars[i].id
    IN  IF HasShieldAction(id) THEN Max(0, Hits(id) - 1) ELSE Hits(id)

DamageEvents(id) ==
    {e \in EventIndexes :
        log.events[e].type = "DAMAGE_APPLIED" /\ log.events[e].targetId = id}

\* C12: with n the number of pulses that hit it in the turn, a Quantar loses
\* max(0, n - 1) hp if it has a Shield action that turn and n otherwise (it is
\* in the resulting state with that hp, or gone if that leaves no hp, and the
\* DamageApplied event reports that damage); a Core loses exactly n.
C12_ShieldedDamage ==
    Called =>
        /\ \A i \in InputIndexes :
              LET q == input.state.quantars[i]
                  left == q.hp - ExpectedLoss(i)
              IN  /\ \A j \in 1..Len(state.quantars) :
                        state.quantars[j].id = q.id => state.quantars[j].hp = left
                  /\ (\E j \in 1..Len(state.quantars) : state.quantars[j].id = q.id)
                        <=> left > 0
                  /\ DamageEvents(q.id) # {} <=> Hits(q.id) > 0
                  /\ \A e \in DamageEvents(q.id) :
                        /\ log.events[e].damage = ExpectedLoss(i)
                        /\ log.events[e].remainingHp = left
        /\ \A p \in Player :
              state.cores[p].hp = input.state.cores[p].hp - Hits(coreId(p))

\* a shielded Quantar hit by exactly one pulse keeps its hp
C12_Witness ==
    /\ Called
    /\ \E i \in InputIndexes, j \in 1..Len(state.quantars) :
          /\ state.quantars[j].id = input.state.quantars[i].id
          /\ HasShieldAction(state.quantars[j].id)
          /\ Hits(state.quantars[j].id) = 1
          /\ state.quantars[j].hp = input.state.quantars[i].hp

\* a shielded Quantar hit by two pulses loses one hp, and a Core was hit
C12_WitnessTwoHits ==
    /\ Called
    /\ \E i \in InputIndexes, j \in 1..Len(state.quantars) :
          /\ state.quantars[j].id = input.state.quantars[i].id
          /\ HasShieldAction(state.quantars[j].id)
          /\ Hits(state.quantars[j].id) = 2
          /\ state.quantars[j].hp = input.state.quantars[i].hp - 1

\* a shielded Quantar hit by three pulses is destroyed
C12_WitnessThreeHits ==
    /\ Called
    /\ \E i \in InputIndexes :
          /\ HasShieldAction(input.state.quantars[i].id)
          /\ Hits(input.state.quantars[i].id) = 3
          /\ \A j \in 1..Len(state.quantars) :
                state.quantars[j].id # input.state.quantars[i].id

\* a Core hit by a pulse
C12_WitnessCore ==
    Called /\ \E p \in Player : Hits(coreId(p)) > 0

----------------------------------------------------------------------------
(* The MOVE phase, read from the input and the log of the latest call *)

AllActions == input.actionsA \o input.actionsB

MoveActions == {a \in 1..Len(AllActions) : AllActions[a].type = "MOVE"}

\* index in the input state of the Quantar an action refers to, 0 if none
Actor(a) ==
    FindIndex(input.state.quantars, LAMBDA q : q.id = AllActions[a].quantarId)

Origin(a) == input.state.quantars[Actor(a)].position

Destination(a) == applyDirection(Origin(a), AllActions[a].direction)

IsCoreCell(cell) == \E p \in Player : input.state.cores[p].position = cell

\* a Move action of a Quantar of the state, in bounds and not into a Core
Contends(a) ==
    /\ a \in MoveActions
    /\ Actor(a) # 0
    /\ isInBounds(Destination(a))
    /\ ~IsCoreCell(Destination(a))

SameDestination(a) ==
    {b \in MoveActions : Contends(b) /\ Destination(b) = Destination(a)}

\* a MoveBlocked event for this action with this reason is in the log
Blocked(a, reason) ==
    \E e \in EventIndexes :
        log.events[e] = MoveBlockedEvent(AllActions[a].quantarId, Origin(a),
                                         AllActions[a].direction, reason)

\* the Quantar of the action is where it was, if it is still in the state
KeepsPosition(a) ==
    /\ ~Moved(AllActions[a].quantarId)
    /\ \A j \in 1..Len(state.quantars) :
          state.quantars[j].id = AllActions[a].quantarId
              => state.quantars[j].position = Origin(a)

\* C13: if two or more in-bounds, not-Core-blocked moves have the same
\* destination cell, none of them is applied: each contender keeps its position
\* and has a MoveBlocked event with reason "collision with another Quantar".
C13_SameDestinationBlocked ==
    Called =>
        \A a \in MoveActions :
            (Contends(a) /\ Cardinality(SameDestination(a)) >= 2) =>
                /\ KeepsPosition(a)
                /\ Blocked(a, "collision with another Quantar")

\* two Quantars contend for a cell whose occupant moves away in the same turn
C13_Witness ==
    /\ Called
    /\ \E a \in MoveActions :
          /\ Contends(a) /\ Cardinality(SameDestination(a)) >= 2
          /\ \E i \in InputIndexes :
                /\ input.state.quantars[i].position = Destination(a)
                /\ Moved(input.state.quantars[i].id)

\* the input Quantars other than the actor that stand in the destination of
\* the move before the MOVE phase and still stand there after it
StayingOccupants(a) ==
    {i \in InputIndexes :
        /\ i # Actor(a)
        /\ input.state.quantars[i].hp > 0
        /\ input.state.quantars[i].position = Destination(a)
        /\ PostMovePosition(i) = Destination(a)}

BlockedAnyReason(a) ==
    \E e \in EventIndexes :
        /\ log.events[e].type = "MOVE_BLOCKED"
        /\ log.events[e].quantarId = AllActions[a].quantarId

\* C14: a Quantar moving into a cell occupied by another live Quantar is
\* blocked (MoveBlocked emitted, position unchanged) whenever that occupant is
\* still in that cell after the MOVE phase, whether it has no Move action or
\* its own move was blocked.
C14_OccupiedCellBlocked ==
    Called =>
        \A a \in MoveActions :
            (Contends(a) /\ StayingOccupants(a) # {}) =>
                KeepsPosition(a) /\ BlockedAnyReason(a)

\* the case of an occupant that has no Move action
C14_StationaryOccupant ==
    Called =>
        \A a \in MoveActions :
            (/\ Contends(a)
             /\ \E i \in StayingOccupants(a) :
                   \A b \in MoveActions : Actor(b) # i) =>
                KeepsPosition(a) /\ BlockedAnyReason(a)

\* one cell in a direction: N is y - 1, S is y + 1, E is x + 1, W is x - 1
Step(pos, dir) ==
    CASE dir = "N" -> Pos(pos.x, pos.y - 1)
      [] dir = "S" -> Pos(pos.x, pos.y + 1)
      [] dir = "E" -> Pos(pos.x + 1, pos.y)
      [] dir = "W" -> Pos(pos.x - 1, pos.y)

\* a MoveBlocked event for the Quantar and the direction of this action
BlockedMove(a) ==
    \E e \in EventIndexes :
        /\ log.events[e].type = "MOVE_BLOCKED"
        /\ log.events[e].quantarId = AllActions[a].quantarId
        /\ log.events[e].direction = AllActions[a].direction

\* C15: in one call every Quantar's position stays the same or changes by one
\* orthogonal step in the direction of a Move action of that Quantar, and it
\* changes only if a Move event for that Quantar is in the log; a Quantar
\* without Move action, or whose moves were all blocked, keeps its position.
C15_OneStepMoves ==
    Called =>
        \A i \in InputIndexes, j \in 1..Len(state.quantars) :
            state.quantars[j].id = input.state.quantars[i].id =>
                LET from == input.state.quantars[i].position
                    to == state.quantars[j].position
                    moves == {a \in MoveActions : Actor(a) = i}
                IN  /\ \/ to = from
                       \/ \E a \in moves : to = Step(from, AllActions[a].direction)
                    /\ to # from =>
                          \E e \in EventIndexes :
                              log.events[e] = [type |-> "MOVE",
                                               quantarId |-> state.quantars[j].id,
                                               from |-> from, to |-> to]
                    /\ (\A a \in moves : BlockedMove(a)) => to = from

\* a turn in which one Quantar moved, another had its move blocked and a third
\* only shielded
C15_Witness ==
    /\ Called
    /\ \E i \in InputIndexes, j \in 1..Len(state.quantars) :
          /\ state.quantars[j].id = input.state.quantars[i].id
          /\ state.quantars[j].position # input.state.quantars[i].position
    /\ \E a \in MoveActions : BlockedMove(a) /\ KeepsPosition(a)
    /\ HasEvent("SHIELD_ACTIVATED")

\* a Quantar with two Move actions: both are applied, the second one stands
C15_WitnessTwoMoves ==
    /\ Called
    /\ \E i \in InputIndexes :
          Cardinality(MoveEvents(input.state.quantars[i].id)) = 2

----------------------------------------------------------------------------
(* Properties of validatePlayerActions and validateAction.  They read the   *)
(* latest validation: the submission, the player, the result and the       *)
(* result of validateAction on each action, all against state.             *)

Validated == validation.called

Submitted == 1..Len(validation.actions)

\* ids of the living Quantars of the player in state
LiveIds(playerId) ==
    {state.quantars[i].id :
        i \in {j \in 1..Len(state.quantars) :
                  state.quantars[j].owner = playerId /\ state.quantars[j].hp > 0}}

\* the quantarId of the i-th action occurred in an earlier action
Repeats(i) ==
    \E j \in 1..(i - 1) :
        validation.actions[j].quantarId = validation.actions[i].quantarId

Covered(id) == \E i \in Submitted : validation.actions[i].quantarId = id

\* C16: validatePlayerActions returns valid iff phase is Playing, no two
\* actions reference the same quantarId, every action passes validateAction for
\* the player and every living Quantar of the player is referenced; a valid
\* submission thus has exactly one action per living Quantar of the player and
\* none for any other Quantar.
C16_ValidIff ==
    Validated =>
        /\ validation.result.valid <=>
              /\ state.phase = "playing"
              /\ \A i \in Submitted : ~Repeats(i)
              /\ \A i \in Submitted : validation.each[i].valid
              /\ \A id \in LiveIds(validation.playerId) : Covered(id)
        /\ validation.result.valid =>
              /\ \A i \in Submitted :
                    validation.actions[i].quantarId \in LiveIds(validation.playerId)
              /\ \A id \in LiveIds(validation.playerId) :
                    Cardinality({i \in Submitted :
                                    validation.actions[i].quantarId = id}) = 1

\* a valid submission of two actions for a player who has lost a Quantar
C16_Witness ==
    /\ Validated
    /\ validation.result.valid
    /\ Len(validation.actions) = 2
    /\ Cardinality(LiveIds(validation.playerId)) = 2

\* the first action that repeats a quantarId or fails validateAction, 0 if none
FirstFailing ==
    LET failing == {i \in Submitted : Repeats(i) \/ ~validation.each[i].valid}
    IN  IF failing = {} THEN 0 ELSE CHOOSE i \in failing : \A j \in failing : i <= j

\* C17: the result of validatePlayerActions is the error of the first failing
\* check in this order: GAME_NOT_IN_ACTION_PHASE if phase is not Playing; then,
\* at the first action in input order that repeats a quantarId or fails
\* validateAction, DUPLICATE_QUANTAR_ACTION if it repeats one and its
\* validateAction error otherwise; then MISSING_QUANTAR_ACTION if a living
\* Quantar of the player has no action.
C17_FirstFailingCheck ==
    Validated =>
        validation.result =
            IF state.phase # "playing"
            THEN ValidationError("GAME_NOT_IN_ACTION_PHASE")
            ELSE IF FirstFailing # 0
            THEN IF Repeats(FirstFailing)
                 THEN ValidationError("DUPLICATE_QUANTAR_ACTION")
                 ELSE validation.each[FirstFailing]
            ELSE IF \E id \in LiveIds(validation.playerId) : ~Covered(id)
            THEN ValidationError("MISSING_QUANTAR_ACTION")
            ELSE ValidationSuccess

\* two of three living Quantars covered by valid actions
C17_Witness ==
    /\ Validated
    /\ Cardinality(LiveIds(validation.playerId)) = 3
    /\ Len(validation.actions) = 2
    /\ FirstFailing = 0
    /\ validation.result = ValidationError("MISSING_QUANTAR_ACTION")

\* a repeated quantarId is reported although the repeating action is invalid
\* by itself and a Quantar is left without action
C17_WitnessDuplicate ==
    /\ Validated
    /\ FirstFailing # 0
    /\ Repeats(FirstFailing)
    /\ ~validation.each[FirstFailing].valid
    /\ \E id \in LiveIds(validation.playerId) : ~Covered(id)
    /\ validation.result = ValidationError("DUPLICATE_QUANTAR_ACTION")

\* an ended game is reported whatever the actions
C17_WitnessEnded ==
    /\ Validated
    /\ state.phase = "ended"
    /\ validation.actions # <<>>
    /\ validation.result = ValidationError("GAME_NOT_IN_ACTION_PHASE")

\* the i-th action has a type and names a Quantar of state owned by the other
\* player
NamesOpponentQuantar(i) ==
    /\ "type" \in DOMAIN validation.actions[i]
    /\ \E j \in 1..Len(state.quantars) :
          /\ state.quantars[j].id = validation.actions[i].quantarId
          /\ state.quantars[j].owner # validation.playerId

\* C18: validateAction returns QUANTAR_NOT_OWNED for every action (an object
\* with a type) whose quantarId names an existing Quantar of the other player,
\* whatever its type and direction, and validatePlayerActions rejects every
\* submission that contains such an action.
C18_NotOwnedRejected ==
    Validated =>
        \A i \in Submitted :
            NamesOpponentQuantar(i) =>
                /\ validation.each[i] = ValidationError("QUANTAR_NOT_OWNED")
                /\ ~validation.result.valid

\* an action of unknown type and a Pulse with an invalid direction, both for
\* Quantars of the other player, in a game that is being played
C18_Witness ==
    /\ Validated
    /\ state.phase = "playing"
    /\ \E i, j \in Submitted :
          /\ NamesOpponentQuantar(i) /\ NamesOpponentQuantar(j)
          /\ validation.actions[i].type = "TELEPORT"
          /\ validation.actions[j].type = "PULSE"
    /\ validation.result = ValidationError("QUANTAR_NOT_OWNED")

----------------------------------------------------------------------------
(* Properties of createInitialState and statesEqual.  A game starts from    *)
(* createInitialState(), so state is its result as long as no turn has been *)
(* resolved; comparison is the latest statesEqual(state, b).               *)

InitialLayout ==
    [turn     |-> 1,
     phase    |-> "playing",
     winner   |-> NULL,
     cores    |-> [A |-> [owner |-> "A", position |-> [x |-> 4, y |-> 8], hp |-> 5],
                   B |-> [owner |-> "B", position |-> [x |-> 4, y |-> 0], hp |-> 5]],
     quantars |-> << [id |-> "A1", owner |-> "A", position |-> [x |-> 3, y |-> 6], hp |-> 2],
                     [id |-> "A2", owner |-> "A", position |-> [x |-> 4, y |-> 6], hp |-> 2],
                     [id |-> "A3", owner |-> "A", position |-> [x |-> 5, y |-> 6], hp |-> 2],
                     [id |-> "B1", owner |-> "B", position |-> [x |-> 3, y |-> 2], hp |-> 2],
                     [id |-> "B2", owner |-> "B", position |-> [x |-> 4, y |-> 2], hp |-> 2],
                     [id |-> "B3", owner |-> "B", position |-> [x |-> 5, y |-> 2], hp |-> 2] >>]

\* C19: createInitialState returns turn 1, phase Playing, winner null, Core A
\* at (4,8) and Core B at (4,0) with hp 5, and the six Quantars A1, A2, A3 at
\* (3,6), (4,6), (5,6) and B1, B2, B3 at (3,2), (4,2), (5,2) with hp 2; another
\* call returns a state that statesEqual finds equal to it.
C19_InitialLayout ==
    calls = 0 =>
        /\ state = InitialLayout
        /\ (comparison.called /\ comparison.b = createInitialState)
              => comparison.equal

\* the state of a new game compared with the result of another call
C19_Witness ==
    /\ calls = 0
    /\ comparison.called
    /\ comparison.b = createInitialState
    /\ comparison.equal
    /\ Len(state.quantars) = 2 * QUANTARS_PER_PLAYER

\* a and b have the same turn, phase, winner and Cores and the same Quantar
\* records, in whatever order
Agree(a, b) ==
    /\ a.turn = b.turn
    /\ a.phase = b.phase
    /\ a.winner = b.winner
    /\ a.cores = b.cores
    /\ Len(a.quantars) = Len(b.quantars)
    /\ {a.quantars[i] : i \in 1..Len(a.quantars)}
          = {b.quantars[i] : i \in 1..Len(b.quantars)}

\* C20: statesEqual(a, b) is true iff a and b agree on turn, phase, winner,
\* both Cores and the collection of Quantar records irrespective of the order
\* of the quantars array; states that differ in any of these have different
\* canonical forms.
C20_StatesEqualIff ==
    comparison.called =>
        /\ comparison.equal <=> Agree(state, comparison.b)
        /\ ~Agree(state, comparison.b)
              => comparison.canonicalA # comparison.canonicalB

\* two states with the same records in a different array order are equal
C20_Witness ==
    /\ comparison.called
    /\ comparison.b.quantars # state.quantars
    /\ Agree(state, comparison.b)
    /\ comparison.equal
    /\ calls > 0

\* two states that differ in the hp of one Quantar, in a different array order
C20_WitnessDiffer ==
    /\ comparison.called
    /\ ~comparison.equal
    /\ Len(state.quantars) = Len(comparison.b.quantars)
    /\ \E i, j \in 1..Len(state.quantars) :
          /\ i # j
          /\ state.quantars[i].id = comparison.b.quantars[j].id
          /\ state.quantars[i].hp # comparison.b.quantars[j].hp
          /\ state.quantars[i].position = comparison.b.quantars[j].position
    /\ state.cores = comparison.b.cores
    /\ state.turn = comparison.b.turn

----------------------------------------------------------------------------
(* The Quantars and the hit points across a call *)

\* the Quantars of the input state that have the id of this one
Forebears(q) == {i \in InputIndexes : input.state.quantars[i].id = q.id}

\* C21: across a resolveTurn call the set of Quantar ids only shrinks: every
\* Quantar of the result was in the input state with the same id and owner,
\* no id appears twice, no Quantar's and no Core's hp is higher in the result
\* than in the input, and each player has at most QUANTARS_PER_PLAYER
\* Quantars.
C21_QuantarsOnlyShrink ==
    /\ Called =>
          /\ \A j \in 1..Len(state.quantars) :
                /\ Forebears(state.quantars[j]) # {}
                /\ \A i \in Forebears(state.quantars[j]) :
                      /\ input.state.quantars[i].owner = state.quantars[j].owner
                      /\ input.state.quantars[i].hp >= state.quantars[j].hp
                /\ \A k \in 1..Len(state.quantars) :
                      state.quantars[k].id = state.quantars[j].id => k = j
          /\ Len(state.quantars) <= Len(input.state.quantars)
          /\ \A p \in Player : state.cores[p].hp <= input.state.cores[p].hp
    /\ \A p \in Player : Cardinality(Survivors(p)) <= QUANTARS_PER_PLAYER

\* a call on a state with a damaged Quantar that destroyed one Quantar, kept
\* the damaged one and lowered a Core's hp
C21_Witness ==
    /\ Called
    /\ Len(state.quantars) < Len(input.state.quantars)
    /\ \E j \in 1..Len(state.quantars), i \in InputIndexes :
          /\ input.state.quantars[i].id = state.quantars[j].id
          /\ input.state.quantars[i].hp = 1
          /\ state.quantars[j].hp = 1
    /\ \E p \in Player : state.cores[p].hp < input.state.cores[p].hp

----------------------------------------------------------------------------
(* The phase across a call *)

\* C22: the phase is monotone: a resolveTurn call on a state whose phase is
\* "ended" returns a state whose phase is "ended", whatever the action lists,
\* and a call on a state whose phase is "playing" returns a state whose turn is
\* the input's turn plus exactly 1.
C22_PhaseMonotone ==
    Called =>
        /\ input.state.phase = "ended" => state.phase = "ended"
        /\ input.state.phase = "playing" => state.turn = input.state.turn + 1

\* a call on a game that ended in a draw at the turn limit, with both Cores and
\* Quantars of both players left, in which a pulse was fired
C22_Witness ==
    /\ Called
    /\ input.state.phase = "ended"
    /\ input.state.turn = MAX_TURNS
    /\ input.state.winner = NULL
    /\ \A p \in Player : input.state.cores[p].hp > 0 /\ Survivors(p) # {}
    /\ HasEvent("PULSE_FIRED")
    /\ state.phase = "ended"

\* a call on a game that ended with a winner
C22_WitnessWinner ==
    /\ Called
    /\ input.state.phase = "ended"
    /\ input.state.winner # NULL
    /\ state.phase = "ended"

\* a call on a game that ended with both Cores destroyed
C22_WitnessMutual ==
    /\ Called
    /\ input.state.phase = "ended"
    /\ \A p \in Player : input.state.cores[p].hp <= 0
    /\ state.phase = "ended"

----------------------------------------------------------------------------
(* Actions that name a Quantar of the opponent or no Quantar of the state *)

\* the owner of the Quantar of the input state with this id, NULL if none
OwnerOf(id) ==
    LET i == FindIndex(input.state.quantars, LAMBDA q : q.id = id)
    IN  IF i = 0 THEN NULL ELSE input.state.quantars[i].owner

Without(actions, i) == SubSeq(actions, 1, i - 1) \o SubSeq(actions, i + 1, Len(actions))

Result == [state |-> state, log |-> log]

\* C23: resolveTurn skips the actions that name a Quantar the submitting player
\* does not own: whichever action of actionsA names a Quantar of B, or of
\* actionsB a Quantar of A, the result is the result of the same call without
\* that action.
C23_UnownedSkipped ==
    Called =>
        /\ \A i \in 1..Len(input.actionsA) :
              OwnerOf(input.actionsA[i].quantarId) = "B" =>
                  resolveTurn([input EXCEPT !.actionsA = Without(@, i)]) = Result
        /\ \A i \in 1..Len(input.actionsB) :
              OwnerOf(input.actionsB[i].quantarId) = "A" =>
                  resolveTurn([input EXCEPT !.actionsB = Without(@, i)]) = Result

\* the actions of a list that name a Quantar of the input state
Known(actions) == SelectSeq(actions, LAMBDA a : OwnerOf(a.quantarId) # NULL)

\* the actions of the call that name no Quantar of the input state
Unknown == {a \in 1..Len(AllActions) : OwnerOf(AllActions[a].quantarId) = NULL}

\* C24: resolveTurn ignores the actions whose quantarId matches no Quantar of
\* the state, in the MOVE, SHIELD and PULSE phases: it returns the state and the
\* event log of the same call without those actions.
C24_UnknownIgnored ==
    (Called /\ Unknown # {}) =>
        resolveTurn([input EXCEPT !.actionsA = Known(@),
                                  !.actionsB = Known(@)]) = Result

\* a call with a Move, a Shield and a Pulse action for ids that no Quantar ever
\* had, next to actions that left events in the log
C24_Witness ==
    /\ Called
    /\ \A type \in {"MOVE", "SHIELD", "PULSE"} :
          \E a \in Unknown :
              /\ AllActions[a].type = type
              /\ AllActions[a].quantarId \notin {"A1", "A2", "A3", "B1", "B2", "B3"}
    /\ HasEvent("SHIELD_ACTIVATED")
    /\ HasEvent("MOVE")

\* a call with a Pulse action for a Quantar that was destroyed in the call
\* before, next to moves that were applied
C24_WitnessDestroyed ==
    /\ Called
    /\ \E a \in Unknown :
          /\ AllActions[a].type = "PULSE"
          /\ AllActions[a].quantarId \in {"A1", "A2", "A3", "B1", "B2", "B3"}
    /\ HasEvent("MOVE")

----------------------------------------------------------------------------
(* The cells of the Quantars *)

\* two Quantars of the state stand in the same cell
SharedCell(st) ==
    \E i, j \in 1..Len(st.quantars) :
        i # j /\ st.quantars[i].position = st.quantars[j].position

\* both lists of the call pass validatePlayerActions on the input state
PassValidation ==
    /\ validatePlayerActions(input.state, input.actionsA, "A").valid
    /\ validatePlayerActions(input.state, input.actionsB, "B").valid

\* C25: in the states reached from createInitialState by resolveTurn calls whose
\* lists pass validatePlayerActions no two Quantars stand in the same cell.  No
\* two Quantars share a cell in the initial state, so this is the step that
\* keeps it: a call with validated lists on a state without shared cell
\* returns a state without shared cell, also when a Quantar moves towards an
\* occupant whose own move is blocked.
C25_NoSharedCell ==
    (Called /\ PassValidation /\ ~SharedCell(input.state)) => ~SharedCell(state)

----------------------------------------------------------------------------
(* The order of the event log *)

\* the phase that pushes an event: 1 MOVE, 2 SHIELD, 3 PULSE, 4 DAMAGE,
\* 5 CLEANUP, 6 the outcome of the turn
PhaseOf(event) ==
    CASE event.type \in {"MOVE", "MOVE_BLOCKED"} -> 1
      [] event.type = "SHIELD_ACTIVATED" -> 2
      [] event.type \in {"PULSE_FIRED", "PULSE_HIT", "PULSE_MISS"} -> 3
      [] event.type = "DAMAGE_APPLIED" -> 4
      [] event.type = "ENTITY_DESTROYED" -> 5
      [] event.type \in {"TERMINAL_LOSS", "GAME_OVER", "DRAW"} -> 6

\* C26: the event log respects the phase order: Move and MoveBlocked events,
\* then ShieldActivated, then PulseFired/PulseHit/PulseMiss, then DamageApplied,
\* then EntityDestroyed, then TerminalLoss, GameOver and Draw; and every
\* PulseFired is immediately followed by the PulseHit or PulseMiss of that
\* pulse, each PulseHit and PulseMiss directly following a PulseFired.
C26_PhaseOrder ==
    Called =>
        /\ \A i, j \in EventIndexes :
              i < j => PhaseOf(log.events[i]) <= PhaseOf(log.events[j])
        /\ \A i \in EventIndexes :
              log.events[i].type = "PULSE_FIRED" =>
                  /\ i + 1 \in EventIndexes
                  /\ \/ log.events[i + 1].type = "PULSE_HIT"
                     \/ /\ log.events[i + 1].type = "PULSE_MISS"
                        /\ log.events[i + 1].quantarId = log.events[i].quantarId
        /\ \A i \in EventIndexes :
              log.events[i].type \in {"PULSE_HIT", "PULSE_MISS"} =>
                  /\ i - 1 \in EventIndexes
                  /\ log.events[i - 1].type = "PULSE_FIRED"

\* a turn with blocked and applied moves, a shield and a pulse that destroys a
\* Core and ends the game
C26_Witness ==
    /\ Called
    /\ \A type \in {"MOVE", "MOVE_BLOCKED", "SHIELD_ACTIVATED", "PULSE_FIRED",
                    "PULSE_HIT", "DAMAGE_APPLIED", "ENTITY_DESTROYED", "GAME_OVER"} :
          HasEvent(type)

\* a turn with several pulses, one of which misses, after applied moves
C26_WitnessMiss ==
    /\ Called
    /\ HasEvent("MOVE")
    /\ HasEvent("PULSE_MISS")
    /\ HasEvent("PULSE_HIT")
    /\ Cardinality(PulseFiredEvents) >= 3

\* the actions of the call that name a Quantar of the input state
Acting == {a \in 1..Len(AllActions) : OwnerOf(AllActions[a].quantarId) # NULL}

\* the direction of an applied move
DirectionOf(from, to) == CHOOSE dir \in ALL_DIRECTIONS : Step(from, dir) = to

\* the events an action produces when it is processed: Move or MoveBlocked for
\* its Quantar and direction, ShieldActivated for its Quantar, PulseFired for
\* its Quantar and direction
EventsFor(a) ==
    LET action == AllActions[a]
    IN  {e \in EventIndexes :
            LET event == log.events[e]
            IN  CASE action.type = "MOVE" ->
                       \/ /\ event.type = "MOVE_BLOCKED"
                          /\ event.quantarId = action.quantarId
                          /\ event.direction = action.direction
                       \/ /\ event.type = "MOVE"
                          /\ event.quantarId = action.quantarId
                          /\ DirectionOf(event.from, event.to) = action.direction
                  [] action.type = "SHIELD" ->
                       /\ event.type = "SHIELD_ACTIVATED"
                       /\ event.quantarId = action.quantarId
                  [] action.type = "PULSE" ->
                       /\ event.type = "PULSE_FIRED"
                       /\ event.quantarId = action.quantarId
                       /\ event.direction = action.direction}

\* the event of a precedes the event of b
InListOrder(a, b) == \E e \in EventsFor(a), f \in EventsFor(b) : e < f

\* the pass of resolveMoves that pushes a MOVE-phase event: 1 the loop over the
\* actions ("out of bounds"), 2 the Core filter, 3 the collision filter, 4 the
\* loop that applies the moves
PassOf(event) ==
    CASE event.type = "MOVE" -> 4
      [] event.reason = "out of bounds" -> 1
      [] event.reason = "blocked by Core" -> 2
      [] OTHER -> 3

\* C27 as stated: within each phase the events appear in the order of the
\* combined action list: for two actions of the same type of which a comes
\* before b, the event produced for a precedes the event produced for b.
C27_ListOrder ==
    Called =>
        \A a, b \in Acting :
            (a < b /\ AllActions[a].type = AllActions[b].type) => InListOrder(a, b)

\* C27, amended: ShieldActivated and PulseFired events appear in the order of
\* the combined action list; the events of the MOVE phase appear pass by pass
\* ("out of bounds" blocks, then "blocked by Core" blocks, then the other
\* blocks, then the Move events) and in the order of the combined list within
\* a pass.
C27_PassOrder ==
    Called =>
        \A a, b \in Acting :
            (a < b /\ AllActions[a].type = AllActions[b].type) =>
                IF AllActions[a].type = "MOVE"
                THEN \E e \in EventsFor(a), f \in EventsFor(b) :
                        IF PassOf(log.events[e]) = PassOf(log.events[f])
                        THEN e < f
                        ELSE e < f <=> PassOf(log.events[e]) < PassOf(log.events[f])
                ELSE InListOrder(a, b)

\* a turn in which a move of the list is applied after a later move of the
\* list was blocked, with shields of both players
C27_Witness ==
    /\ Called
    /\ \E a, b \in Acting :
          /\ a < b
          /\ AllActions[a].type = "MOVE" /\ AllActions[b].type = "MOVE"
          /\ \E e \in EventsFor(a), f \in EventsFor(b) : f < e
    /\ \E a, b \in Acting :
          /\ a <= Len(input.actionsA) /\ b > Len(input.actionsA)
          /\ AllActions[a].type = "SHIELD" /\ AllActions[b].type = "SHIELD"

\* a turn with moves blocked at the edge of the board, a move blocked by a Core
\* and an applied move
C27_WitnessPasses ==
    /\ Called
    /\ \A pass \in {1, 2, 4} :
          \E e \in EventIndexes :
              /\ log.events[e].type \in {"MOVE", "MOVE_BLOCKED"}
              /\ PassOf(log.events[e]) = pass

\* a turn with pulses of both players
C27_WitnessPulses ==
    /\ Called
    /\ \E a, b \in Acting :
          /\ a <= Len(input.actionsA) /\ b > Len(input.actionsA)
          /\ AllActions[a].type = "PULSE" /\ AllActions[b].type = "PULSE"
          /\ InListOrder(a, b)

----------------------------------------------------------------------------
(* Swaps *)

\* the moves of another Quantar that go from the destination of move a to its
\* origin
SwapPartners(a) ==
    {b \in MoveActions :
        /\ Contends(b)
        /\ Actor(b) # Actor(a)
        /\ Origin(b) = Destination(a)
        /\ Destination(b) = Origin(a)}

\* two Quantars of the input state are in the result, each in the cell the
\* other one had
Exchanged ==
    \E i, j \in InputIndexes, k, l \in 1..Len(state.quantars) :
        /\ i # j
        /\ input.state.quantars[i].position # input.state.quantars[j].position
        /\ state.quantars[k].id = input.state.quantars[i].id
        /\ state.quantars[l].id = input.state.quantars[j].id
        /\ state.quantars[k].position = input.state.quantars[j].position
        /\ state.quantars[l].position = input.state.quantars[i].position

C28_WitnessContended ==
    /\ Called
    /\ \E a, b \in MoveActions :
          /\ Contends(a) /\ b \in SwapPartners(a)
          /\ Cardinality(SameDestination(a)) >= 2
          /\ Blocked(a, "collision with another Quantar")
          /\ Blocked(b, "swap collision")

----------------------------------------------------------------------------
(* Moves into the cell of another Quantar *)

\* the live Quantars of the input state, other than the actor, that stand in the
\* destination of move a
OccupantsAt(a) ==
    {i \in InputIndexes :
        /\ i # Actor(a)
        /\ input.state.quantars[i].hp > 0
        /\ input.state.quantars[i].position = Destination(a)}

\* the Quantar has no Move action, or one that goes to a cell other than the
\* origin of move a
StaysOrGoesElsewhere(i, a) ==
    \A b \in MoveActions :
        Actor(b) = i => Destination(b) # Origin(a)

\* C29: a move whose destination is occupied by a live Quantar that has no
\* move, or that is itself moving to a third cell (not the mover's origin), is
\* blocked: the mover keeps its position and MoveBlocked with reason "blocked
\* by stationary Quantar" is emitted.  Moves that also contend with another
\* move for their destination are left to the same-destination check.
C29_OccupantBlocks ==
    Called =>
        \A a \in MoveActions :
            (/\ Contends(a)
             /\ Cardinality(SameDestination(a)) = 1
             /\ \E i \in OccupantsAt(a) : StaysOrGoesElsewhere(i, a)) =>
                KeepsPosition(a) /\ Blocked(a, "blocked by stationary Quantar")

\* the part of C29 that holds: the occupant has no Move action at all (and the
\* mover has no other Move action that is applied)
C29_IdleOccupantBlocks ==
    Called =>
        \A a \in MoveActions :
            (/\ Contends(a)
             /\ Cardinality(SameDestination(a)) = 1
             /\ \A b \in MoveActions : Actor(b) = Actor(a) => b = a
             /\ \A i \in OccupantsAt(a) : \A b \in MoveActions : Actor(b) # i
             /\ OccupantsAt(a) # {}) =>
                KeepsPosition(a) /\ Blocked(a, "blocked by stationary Quantar")

----------------------------------------------------------------------------
(* Moves into the cell of a Core *)

\* a Move action of a Quantar of the state whose destination is a Core's cell
IntoCore(a) ==
    /\ a \in MoveActions
    /\ Actor(a) # 0
    /\ IsCoreCell(Destination(a))

\* C30: a move whose destination is the cell of either Core, the mover's own
\* or the opponent's, destroyed or not, is blocked with reason "blocked by
\* Core" (the mover keeps its position) and does not count as a contender of a
\* same-destination collision, so it never gets the reason "collision with
\* another Quantar"; no Quantar of a reachable state stands in a Core's cell
\* and the Cores stay at (4,8) and (4,0).
C30_CoreBlocks ==
    /\ Called =>
          \A a \in MoveActions :
              IntoCore(a) =>
                  /\ KeepsPosition(a)
                  /\ Blocked(a, "blocked by Core")
                  /\ ~Blocked(a, "collision with another Quantar")
    /\ \A i \in 1..Len(state.quantars), p \in Player :
          state.quantars[i].position # state.cores[p].position
    /\ state.cores.A.position = Pos(4, 8)
    /\ state.cores.B.position = Pos(4, 0)

\* a turn in which two Quantars move into the cell of their own Core and a third
\* one into the cell of the opponent's Core
C30_Witness ==
    /\ Called
    /\ \E a, b, c \in MoveActions :
          /\ a # b
          /\ IntoCore(a) /\ IntoCore(b) /\ IntoCore(c)
          /\ Destination(a) = Destination(b)
          /\ Destination(a) = input.state.cores[input.state.quantars[Actor(a)].owner].position
          /\ Destination(c) = input.state.cores[getOpponent(input.state.quantars[Actor(c)].owner)].position
          /\ Blocked(a, "blocked by Core") /\ Blocked(b, "blocked by Core")
          /\ Blocked(c, "blocked by Core")

\* a move into the cell of a Core that was destroyed in the call before
C30_WitnessDestroyed ==
    /\ Called
    /\ \E a \in MoveActions, p \in Player :
          /\ IntoCore(a)
          /\ input.state.cores[p].hp <= 0
          /\ Destination(a) = input.state.cores[p].position
          /\ Blocked(a, "blocked by Core")

----------------------------------------------------------------------------
(* Moves off the board *)

\* a Move action of a Quantar of the state whose destination is off the board
OffBoard(a) ==
    /\ a \in MoveActions
    /\ Actor(a) # 0
    /\ ~isInBounds(Destination(a))

OutOfBoundsEvents ==
    {e \in EventIndexes :
        log.events[e].type = "MOVE_BLOCKED" /\ log.events[e].reason = "out of bounds"}

\* C31: a Move whose destination is outside the board is blocked with reason
\* "out of bounds" and leaves the Quantar in place; every Quantar of a
\* reachable state has 0 <= x <= 8 and 0 <= y <= 8; and a call whose lists both
\* pass validatePlayerActions emits no "out of bounds" event.
C31_OutOfBounds ==
    /\ Called =>
          \A a \in MoveActions :
              OffBoard(a) => KeepsPosition(a) /\ Blocked(a, "out of bounds")
    /\ \A i \in 1..Len(state.quantars) :
          /\ 0 <= state.quantars[i].position.x /\ state.quantars[i].position.x <= 8
          /\ 0 <= state.quantars[i].position.y /\ state.quantars[i].position.y <= 8
    /\ (Called /\ PassValidation) => OutOfBoundsEvents = {}

\* a turn in which one Quantar moves North from row 0 and another one South from
\* row 8
C31_Witness ==
    /\ Called
    /\ \E a, b \in MoveActions :
          /\ OffBoard(a) /\ Destination(a).y = 0 - 1
          /\ OffBoard(b) /\ Destination(b).y = BOARD_SIZE
          /\ Blocked(a, "out of bounds") /\ Blocked(b, "out of bounds")

\* validated lists with a Move for a Quantar that stands on the edge of the board
C31_WitnessValidated ==
    /\ Called
    /\ PassValidation
    /\ \E a \in MoveActions :
          /\ Actor(a) # 0
          /\ Origin(a).y \in {0, BOARD_SIZE - 1}
          /\ isInBounds(Destination(a))

----------------------------------------------------------------------------
(* The target of a pulse *)

PulseOutcomes ==
    {e \in EventIndexes : log.events[e].type \in {"PULSE_HIT", "PULSE_MISS"}}

\* the ids of the entities of the input state
Entities ==
    {input.state.quantars[i].id : i \in InputIndexes} \cup {coreId(p) : p \in Player}

\* the hp an entity of the input state has lost in the call
HpLost(id) ==
    IF id \in {coreId(p) : p \in Player}
    THEN LET p == CHOOSE r \in Player : coreId(r) = id
         IN  input.state.cores[p].hp - state.cores[p].hp
    ELSE LET i == CHOOSE k \in InputIndexes : input.state.quantars[k].id = id
             left == {k \in 1..Len(state.quantars) : state.quantars[k].id = id}
         IN  IF left = {} THEN input.state.quantars[i].hp
             ELSE input.state.quantars[i].hp
                  - state.quantars[CHOOSE k \in left : TRUE].hp

\* C32: each fired pulse damages at most one target, by exactly PULSE_DAMAGE:
\* an orthogonal pulse hits the occupant (live Quantar or Core of either
\* player) of the first occupied cell of its ray and nothing behind it, a
\* diagonal pulse the occupant of the adjacent diagonal cell only; with no such
\* occupant it misses; an entity loses at most PULSE_DAMAGE hp per pulse whose
\* target it is, and none if it is the target of no pulse.
C32_OneTarget ==
    Called =>
        /\ \A e \in PulseFiredEvents :
              /\ e + 1 \in EventIndexes
              /\ LET targets == FirstOnRay(log.events[e].from, log.events[e].direction)
                     outcome == log.events[e + 1]
                 IN  IF targets = {}
                     THEN outcome.type = "PULSE_MISS"
                     ELSE /\ outcome.type = "PULSE_HIT"
                          /\ outcome.targetId \in targets
                          /\ outcome.damage = PULSE_DAMAGE
        /\ Cardinality(PulseOutcomes) = Cardinality(PulseFiredEvents)
        /\ \A id \in Entities :
              /\ HpLost(id) >= 0
              /\ HpLost(id) <= Hits(id) * PULSE_DAMAGE
              /\ Hits(id) = 0 => HpLost(id) = 0

\* an orthogonal pulse hits a Quantar of the shooter's own side that stands
\* before another entity of the ray, and only that Quantar loses hp
C32_Witness ==
    /\ Called
    /\ \E e \in PulseFiredEvents, i, j \in InputIndexes :
          /\ log.events[e].direction \in ALL_DIRECTIONS
          /\ input.state.quantars[i].id = log.events[e].quantarId
          /\ input.state.quantars[j].id = log.events[e + 1].targetId
          /\ log.events[e + 1].type = "PULSE_HIT"
          /\ input.state.quantars[i].owner = input.state.quantars[j].owner
          /\ \E k \in 1..BOARD_SIZE, id \in Entities :
                /\ isInBounds(RayCell(PostMovePosition(j), log.events[e].direction, k))
                /\ id \in Occupants(RayCell(PostMovePosition(j), log.events[e].direction, k))
                /\ Hits(id) = 0
                /\ HpLost(id) = 0
          /\ HpLost(input.state.quantars[j].id) = 1

\* a diagonal pulse misses although an entity stands two cells away on its
\* diagonal
C32_WitnessDiagonalMiss ==
    /\ Called
    /\ \E e \in PulseFiredEvents :
          /\ log.events[e].direction \in DIAGONAL_DIRECTIONS
          /\ log.events[e + 1].type = "PULSE_MISS"
          /\ Occupants(RayCell(log.events[e].from, log.events[e].direction, 2)) # {}

\* a diagonal pulse hits the entity of the adjacent diagonal cell
C32_WitnessDiagonalHit ==
    /\ Called
    /\ \E e \in PulseFiredEvents :
          /\ log.events[e].direction \in DIAGONAL_DIRECTIONS
          /\ log.events[e + 1].type = "PULSE_HIT"

\* an orthogonal pulse leaves the board without meeting an entity
C32_WitnessMiss ==
    /\ Called
    /\ \E e \in PulseFiredEvents :
          /\ log.events[e].direction \in ALL_DIRECTIONS
          /\ log.events[e + 1].type = "PULSE_MISS"
    /\ \A id \in Entities : HpLost(id) = 0

----------------------------------------------------------------------------
(* Simultaneous damage *)

\* the Pulse actions of the call for the Quantar
PulseActions(id) ==
    {a \in 1..Len(AllActions) :
        AllActions[a].type = "PULSE" /\ AllActions[a].quantarId = id}

\* the pulses the Quantar fired in the call
FiredBy(id) ==
    {e \in PulseFiredEvents : log.events[e].quantarId = id}

\* the Quantar of the input state is not in the resulting state
Destroyed(i) ==
    \A j \in 1..Len(state.quantars) :
        state.quantars[j].id # input.state.quantars[i].id

\* a pulse of the i-th Quantar of the input hit the j-th one
FiredAt(i, j) ==
    \E e \in FiredBy(input.state.quantars[i].id) :
        /\ log.events[e + 1].type = "PULSE_HIT"
        /\ log.events[e + 1].targetId = input.state.quantars[j].id

\* C33: damage is simultaneous: every Pulse action of a Quantar that is alive
\* when the turn starts is fired, also when the Quantar is destroyed in that
\* turn; every hit is counted, also those beyond the lethal one (the damage
\* applied is the damage of all hits of the turn); two Quantars at 1 hp that
\* fire at each other without shields are both destroyed.
C33_Simultaneous ==
    Called =>
        /\ \A i \in InputIndexes :
              LET q == input.state.quantars[i]
              IN  /\ Cardinality(FiredBy(q.id)) = Cardinality(PulseActions(q.id))
                  /\ Destroyed(i) <=> ExpectedLoss(i) >= q.hp
                  /\ \A e \in DamageEvents(q.id) :
                        log.events[e].damage = ExpectedLoss(i)
        /\ \A i, j \in InputIndexes :
              /\ input.state.quantars[i].hp = 1
              /\ input.state.quantars[j].hp = 1
              /\ FiredAt(i, j)
              /\ FiredAt(j, i)
              /\ ~HasShieldAction(input.state.quantars[i].id)
              /\ ~HasShieldAction(input.state.quantars[j].id)
              => Destroyed(i) /\ Destroyed(j)

\* a Quantar fires a pulse that hits and is destroyed in the same turn by more
\* hits than it has hp
C33_Witness ==
    /\ Called
    /\ \E i, j \in InputIndexes :
          /\ i # j
          /\ FiredAt(i, j)
          /\ Destroyed(i)
          /\ Hits(input.state.quantars[i].id) > input.state.quantars[i].hp

\* two Quantars at 1 hp fire at each other and are both destroyed
C33_WitnessMutual ==
    /\ Called
    /\ \E i, j \in InputIndexes :
          /\ i # j
          /\ input.state.quantars[i].hp = 1
          /\ input.state.quantars[j].hp = 1
          /\ FiredAt(i, j)
          /\ FiredAt(j, i)
          /\ Destroyed(i)
          /\ Destroyed(j)

----------------------------------------------------------------------------
(* Both players without Quantars *)

\* both Cores stand and no Quantar of either player is left after the call
BothWiped ==
    /\ ~CoreDead("A")
    /\ ~CoreDead("B")
    /\ Survivors("A") = {}
    /\ Survivors("B") = {}

DrawEvents == {e \in EventIndexes : log.events[e].type = "DRAW"}

\* C34: when a call leaves both Cores with hp > 0 and neither player with a
\* Quantar, the game is a draw: winner null, phase Ended, one Draw event whose
\* reason is "mutual_destruction" (never "max_turns", also when the turn limit
\* is reached by the same call), and no TerminalLoss or GameOver event.
C34_NoQuantarsDraw ==
    Called /\ BothWiped =>
        /\ state.winner = NULL
        /\ state.phase = "ended"
        /\ Cardinality(DrawEvents) = 1
        /\ HasDraw("mutual_destruction")
        /\ ~HasDraw("max_turns")
        /\ ~HasEvent("TERMINAL_LOSS")
        /\ ~HasEvent("GAME_OVER")

\* the last Quantars of both players are destroyed by one call on a state in
\* play, before the turn limit
C34_Witness ==
    /\ Called
    /\ BothWiped
    /\ input.state.phase = "playing"
    /\ \E i, j \in InputIndexes :
          input.state.quantars[i].owner = "A" /\ input.state.quantars[j].owner = "B"
    /\ state.turn < MAX_TURNS

\* the same in the call that reaches the turn limit
C34_WitnessLimit ==
    /\ Called
    /\ BothWiped
    /\ input.state.phase = "playing"
    /\ \E i, j \in InputIndexes :
          input.state.quantars[i].owner = "A" /\ input.state.quantars[j].owner = "B"
    /\ state.turn = MAX_TURNS

----------------------------------------------------------------------------
(* The order of the checks of validateAction *)

\* the Quantars of state that the i-th submitted action names
Named(i) ==
    {j \in 1..Len(state.quantars) :
        state.quantars[j].id = validation.actions[i].quantarId}

HasType(i) == "type" \in DOMAIN validation.actions[i]

Recognized(i) ==
    HasType(i) /\ validation.actions[i].type \in {"MOVE", "PULSE", "SHIELD"}

BadDirection(i) ==
    /\ HasType(i)
    /\ \/ /\ validation.actions[i].type = "MOVE"
          /\ validation.actions[i].direction \notin ALL_DIRECTIONS
       \/ /\ validation.actions[i].type = "PULSE"
          /\ validation.actions[i].direction \notin ALL_PULSE_DIRECTIONS

LeavesBoard(i) ==
    /\ HasType(i)
    /\ validation.actions[i].type = "MOVE"
    /\ validation.actions[i].direction \in ALL_DIRECTIONS
    /\ \E j \in Named(i) :
          ~isInBounds(Step(state.quantars[j].position, validation.actions[i].direction))

\* the checks the i-th submitted action fails, by name
Failing(i) ==
    {c \in {"shape", "recognized", "exists", "owned", "alive", "direction", "bounds"} :
        \/ c = "shape" /\ ~HasType(i)
        \/ c = "recognized" /\ HasType(i) /\ ~Recognized(i)
        \/ c = "exists" /\ Named(i) = {}
        \/ c = "owned" /\ \E j \in Named(i) : state.quantars[j].owner # validation.playerId
        \/ c = "alive" /\ \E j \in Named(i) : state.quantars[j].hp <= 0
        \/ c = "direction" /\ BadDirection(i)
        \/ c = "bounds" /\ LeavesBoard(i)}

CodeOf(check) ==
    CASE check \in {"shape", "recognized"} -> "INVALID_ACTION_TYPE"
      [] check = "exists" -> "QUANTAR_NOT_FOUND"
      [] check = "owned" -> "QUANTAR_NOT_OWNED"
      [] check = "alive" -> "QUANTAR_DEAD"
      [] check = "direction" -> "INVALID_DIRECTION"
      [] check = "bounds" -> "MOVE_OUT_OF_BOUNDS"

\* the result of validateAction for an action that is checked in this order
EarliestFailure(i, order) ==
    LET failed == {k \in 1..Len(order) : order[k] \in Failing(i)}
    IN  IF failed = {} THEN ValidationSuccess
        ELSE ValidationError(CodeOf(order[CHOOSE k \in failed : \A j \in failed : k <= j]))

C35_WitnessSeveral ==
    /\ Validated
    /\ \E i, j, k \in Submitted :
          /\ {"owned", "direction"} \subseteq Failing(i)
          /\ {"owned", "bounds"} \subseteq Failing(j)
          /\ {"owned", "recognized"} \subseteq Failing(k)
          /\ validation.each[i] = ValidationError("QUANTAR_NOT_OWNED")
          /\ validation.each[j] = ValidationError("QUANTAR_NOT_OWNED")
          /\ validation.each[k] = ValidationError("QUANTAR_NOT_OWNED")

\* a Move that leaves the board, of a Quantar of the player
C35_WitnessBounds ==
    /\ Validated
    /\ \E i \in Submitted :
          /\ Failing(i) = {"bounds"}
          /\ validation.each[i] = ValidationError("MOVE_OUT_OF_BOUNDS")

----------------------------------------------------------------------------
(* Termination within the turn limit *)

\* C36: a game played from createInitialState by calls of resolveTurn on states
\* in play ends within the turn limit: a state in play has 1 <= turn <= 49,
\* the 49th resolution leaves the phase Ended at the latest, and a call on a
\* state in play never returns a turn above 50.
C36_TurnLimit ==
    /\ state.turn = calls + 1
    /\ state.phase = "playing" => 1 <= state.turn /\ state.turn <= 49
    /\ calls >= 49 => state.phase = "ended"
    /\ Called /\ input.state.phase = "playing" => calls <= 49 /\ state.turn <= 50

\* the 49th resolution, on a state in play at turn 49, ends the game at turn 50
C36_Witness ==
    /\ calls = 49
    /\ input.state.phase = "playing"
    /\ input.state.turn = 49
    /\ state.turn = 50
    /\ state.phase = "ended"

\* a game in play at turn 49 after 48 resolutions
C36_WitnessPlaying ==
    calls = 48 /\ state.phase = "playing" /\ state.turn = 49

\* a turn above 50, returned by a call on an ended game
C36_WitnessOverrun ==
    Called /\ input.state.phase = "ended" /\ state.turn > 50

----------------------------------------------------------------------------
(* resolveTurn on a finished game *)

\* C37: the outcome of a finished game is stable: a call of resolveTurn on a
\* reachable state whose phase is Ended returns a state with the same winner (a
\* decided winner is not replaced by the other player or by null, and a draw
\* does not become a win).
C37_OutcomeStable ==
    Called /\ input.state.phase = "ended" => state.winner = input.state.winner

----------------------------------------------------------------------------
(* The order of the actions *)

\* the lists that hold the actions of the list in another order
Orderings(actions) ==
    LET n == Len(actions)
        orders == {f \in [1..n -> 1..n] : \A i, j \in 1..n : f[i] = f[j] => i = j}
    IN  {[i \in 1..n |-> actions[f[i]]] : f \in orders}

\* the inputs that differ from the input of the call in the order of the
\* actions: A's list permuted, B's list permuted, both reversed, and each of
\* these with B's actions merged before A's
Reorderings ==
    LET within ==
            {[input EXCEPT !.actionsA = p] : p \in Orderings(input.actionsA)}
            \cup {[input EXCEPT !.actionsB = p] : p \in Orderings(input.actionsB)}
            \cup {[input EXCEPT !.actionsA = Reversed(@), !.actionsB = Reversed(@)]}
    IN  within
        \cup {[in EXCEPT !.actionsA = in.actionsB, !.actionsB = in.actionsA] :
                 in \in within}

EventSet(events) == {events[i] : i \in 1..Len(events)}

\* C38: for lists that each pass validatePlayerActions the state returned by
\* resolveTurn does not depend on the order of the actions: with A's actions
\* permuted, with B's actions permuted, or with B's actions merged before A's,
\* the returned state has the same canonical form, and the log holds the same
\* events, in whatever order.
C38_OrderIndependent ==
    Called /\ PassValidation =>
        \A in \in Reorderings :
            LET result == resolveTurn(in)
            IN  /\ canonicalizeState(result.state) = canonicalizeState(state)
                /\ EventSet(result.log.events) = EventSet(log.events)
                /\ Len(result.log.events) = Len(log.events)

\* validated lists with an applied move and a pulse that hits, whose log comes
\* in another order when the actions are reordered
C38_Witness ==
    /\ Called
    /\ PassValidation
    /\ HasEvent("MOVE")
    /\ HasEvent("PULSE_HIT")
    /\ state # input.state
    /\ \E in \in Reorderings : resolveTurn(in).log.events # log.events

\* validated lists with a blocked move and a Quantar destroyed in the turn
C38_WitnessBlocked ==
    /\ Called
    /\ PassValidation
    /\ HasEvent("MOVE_BLOCKED")
    /\ HasEvent("ENTITY_DESTROYED")

----------------------------------------------------------------------------
(* Shields last one turn *)

\* the fields of a Quantar of a GameState
QuantarFields == {"id", "owner", "position", "hp"}

\* the latest call is the first one after QuietTurns turns in which every
\* Quantar had a Shield action
AfterShieldTurn == calls = QuietTurns + 1 /\ played = 1

\* C39: shielding is transient: no GameState carries a shield (a Quantar is
\* id, owner, position and hp), so a Quantar that is hit by one pulse in a turn
\* in which it has no Shield action loses 1 hp, also when it shielded the turn
\* before; the result of resolveTurn is that of its input (state and lists of
\* this turn) and depends on no earlier turn's actions.
C39_ShieldTransient ==
    /\ \A i \in 1..Len(state.quantars) : DOMAIN state.quantars[i] = QuantarFields
    /\ Called =>
          /\ \A i \in InputIndexes :
                LET q == input.state.quantars[i]
                IN  /\ DOMAIN q = QuantarFields
                    /\ (Hits(q.id) = 1 /\ ~HasShieldAction(q.id)) =>
                          /\ HpLost(q.id) = 1
                          /\ \A e \in DamageEvents(q.id) : log.events[e].damage = 1
          /\ state = resolveTurn(input).state
          /\ log = resolveTurn(input).log

\* a Quantar at full hp that shielded in the turn before is hit by one pulse
\* without a Shield action and loses 1 hp
C39_Witness ==
    /\ AfterShieldTurn
    /\ \E i \in InputIndexes, j \in 1..Len(state.quantars) :
          /\ state.quantars[j].id = input.state.quantars[i].id
          /\ Hits(state.quantars[j].id) = 1
          /\ ~HasShieldAction(state.quantars[j].id)
          /\ input.state.quantars[i].hp = QUANTAR_HP
          /\ state.quantars[j].hp = QUANTAR_HP - 1

----------------------------------------------------------------------------
(* The hash of a state *)

\* h * 33 modulo 2^32, on the halves of h
Times33(h) ==
    <<(h[1] * 33 + (h[2] * 33) \div 65536) % 65536, (h[2] * 33) % 65536>>

\* the fold h <- ((h * 33) mod 2^32) XOR charCode over the characters of str
\* from the n-th on, from the value h
RECURSIVE Fold(_, _, _)
Fold(str, n, h) ==
    IF h[1] + h[2] >= 0 /\ n <= Len(str)
    THEN Fold(str, n + 1,
              <<Times33(h)[1], xor16(Times33(h)[2], CharCodes[SubSeq(str, n, n)])>>)
    ELSE h

\* the four hexadecimal digits of a number below 65536
Hex4(n) ==
    LET digit(d) == SubSeq(HexDigits, d + 1, d + 1)
    IN  digit(n \div 4096) \o digit((n \div 256) % 16)
            \o digit((n \div 16) % 16) \o digit(n % 16)

IsHex8(str) ==
    /\ Len(str) = 8
    /\ \A i \in 1..8 :
          \E d \in 1..Len(HexDigits) : SubSeq(str, i, i) = SubSeq(HexDigits, d, d)

\* C40: hashState(s) is the fold h <- ((h * 33) mod 2^32) XOR charCode over the
\* characters of canonicalizeState(s), from 5381, as an unsigned 32-bit value
\* written as exactly 8 lowercase hexadecimal digits, zero-padded; it is a
\* function of s (of the canonical form of s, which is compared with that of
\* the state), and statesEqual(a, b) implies hashState(a) = hashState(b).
C40_HashState ==
    comparison.called =>
        LET folded == Fold(comparison.canonicalA, 1, <<0, 5381>>)
            hashA == hashState(state)
            hashB == hashState(comparison.b)
        IN  /\ comparison.canonicalA = canonicalizeState(state)
            /\ hashA = Hex4(folded[1]) \o Hex4(folded[2])
            /\ IsHex8(hashA)
            /\ IsHex8(hashB)
            /\ comparison.equal => hashB = hashA

\* the hash of a state of a game in progress has a leading zero, and the state
\* is equal to another one that holds its Quantars in another order
C40_Witness ==
    /\ comparison.called
    /\ calls > 0
    /\ SubSeq(hashState(state), 1, 1) = "0"
    /\ comparison.equal
    /\ comparison.b # state

\* two states that are not equal have different hashes
C40_WitnessDiffer ==
    /\ comparison.called
    /\ ~comparison.equal
    /\ hashState(comparison.b) # hashState(state)

\* the hash of createInitialState()
C40_WitnessInitial ==
    /\ comparison.called
    /\ calls = 0
    /\ hashState(state) = hashState(createInitialState)

====
